---- MODULE Spec2Model ----
(***************************************************************************)
(* Model of src/main.py: the two worker threads of the manga downloader.   *)
(*                                                                         *)
(*   MangaDownloader (QThread)  the fetch worker: browser session, watcher *)
(*                              loop, catalog resolver, chapter fetch loop *)
(*                              and the CBZ / PDF assembler.               *)
(*   PDFUpscaler (QThread)      the upscale worker.                        *)
(*                                                                         *)
(* A behaviour is one run of one worker object: Init is the state right    *)
(* after __init__ of either class, with the constructor arguments and the  *)
(* files found on disk drawn from small sets.  cancel() / stop() are the   *)
(* calls the GUI thread can make at any moment.                            *)
(*                                                                         *)
(* Text is modelled as a sequence of one-character strings, a page name as *)
(* a record [w, stem, ext] that renders as the stem zero-padded to w       *)
(* digits followed by "." and ext.  Orderings are the lexical orderings of *)
(* the rendered text, as Python's sorted() computes them.                  *)
(***************************************************************************)
EXTENDS Integers, Sequences, FiniteSets, TLC

\* ---------------------------------------------------------------- bounds
\* Longest chapter list a catalog block carries.
MaxChapters == 2

\* How many times the watcher is followed replacing a button.
MaxInjections == 2
\* Largest page count of a "small" chapter bundle (big ones hold PAGES_PER_PDF).
MaxSmallPages == 3
CancelWindow == 2
\* Longest title handed to the sanitizer on its own, and how often it is
\* applied in a row.
MaxTitleLen == 3
MaxCalls == 2
\* How many fetch runs the window starts, one after the other.
MaxRuns == 2
\* Longest input list of the upscale worker, and most pages in one input.
MaxInputFiles == 2
MaxDocPages == 2

\* ------------------------------------------------------ program constants
PAGES_PER_PDF == 100

\* ------------------------------------------------------------------ text
\* The characters used by the model, in code-point order.
Alphabet ==
  << " ", "-", ".", "0", "1", "2", "3", "4", "5", "6", "7", "8", "9", ":",
     "C", "G", "M", "N", "P", "_", "a", "b", "c", "d", "f", "g", "h", "i",
     "j", "n", "p", "r", "t", "x", "y", "z" >>

\* ord(c), up to an order-preserving renumbering
Ord(c) == CHOOSE k \in 1..Len(Alphabet) : Alphabet[k] = c

\* Python's \w over the model's alphabet: letters, digits and underscore.
WordChars ==
  { "0", "1", "2", "3", "4", "5", "6", "7", "8", "9",
    "C", "G", "M", "N", "P", "_", "a", "b", "c", "d", "f", "g", "h", "i",
    "j", "n", "p", "r", "t", "x", "y", "z" }

\* re.sub with count=1: only the first offending character is replaced.
SanitizeFirst(s) ==
  LET bad == { k \in 1..Len(s) : s[k] \notin WordChars \cup {"-", " "} }
  IN  [k \in 1..Len(s) |->
         IF bad # {} /\ k = CHOOSE m \in bad : \A n \in bad : m <= n
         THEN "_" ELSE s[k]]

\* re.sub(r"[^\w\- ]", "_", s)
Sanitize(s) ==
  [k \in 1..Len(s) |->
     IF s[k] \in WordChars \cup {"-", " "} THEN s[k] ELSE "_"]

DigitChar(d) == Alphabet[4 + d]

RECURSIVE Digits(_)
\* str(n) for n >= 0
Digits(n) == IF n < 10 THEN << DigitChar(n) >>
             ELSE Digits(n \div 10) \o << DigitChar(n % 10) >>

RECURSIVE Zeros(_)
Zeros(k) == IF k <= 0 THEN << >> ELSE << "0" >> \o Zeros(k - 1)

\* f"{n:0w}": zero-padded to at least w digits, longer when n needs more.
ZeroPad(n, w) == Zeros(w - Len(Digits(n))) \o Digits(n)

\* str < str in Python: lexicographic by code point, a proper prefix first.
LexLess(a, b) ==
  \E k \in 1..(Len(b)) :
     /\ \A j \in 1..(k - 1) : j <= Len(a) /\ a[j] = b[j]
     /\ \/ k = Len(a) + 1
        \/ k <= Len(a) /\ Ord(a[k]) < Ord(b[k])

RECURSIVE SortedTexts(_)
\* sorted(S) for a finite set S of texts
SortedTexts(S) ==
  IF S = {} THEN << >>
  ELSE LET m == CHOOSE x \in S : \A y \in S \ {x} : LexLess(x, y)
       IN  << m >> \o SortedTexts(S \ {m})

Reverse(s) == [k \in 1..Len(s) |-> s[Len(s) + 1 - k]]

Range(s) == { s[k] : k \in 1..Len(s) }

\* ------------------------------------------------------------ page names
ExtText(e) ==
  CASE e = "jpg" -> << "j", "p", "g" >>
    [] e = "png" -> << "p", "n", "g" >>
    [] e = "PNG" -> << "P", "N", "G" >>
    [] e = "txt" -> << "t", "x", "t" >>

\* str.lower() on an extension
Lower(e) == IF e = "PNG" THEN "png" ELSE e

NameText(n) == ZeroPad(n.stem, n.w) \o << "." >> \o ExtText(n.ext)

NameLess(a, b) == LexLess(NameText(a), NameText(b))

\* An enumeration that keeps the archive's own order.
UnsortedNames(s) == s

RECURSIVE SortedNames(_)
\* sorted(z.namelist()): the entry names of one archive, in lexical order
\* (computed by partitioning around the middle entry).
SortedNames(s) ==
  IF Len(s) <= 1 THEN s
  ELSE LET p == s[(Len(s) + 1) \div 2]
       IN  SortedNames(SelectSeq(s, LAMBDA x : NameLess(x, p)))
           \o SelectSeq(s, LAMBDA x : x = p)
           \o SortedNames(SelectSeq(s, LAMBDA x : NameLess(p, x)))

\* name.lower().endswith(('.jpg', '.jpeg', '.png', '.bmp', '.gif'))
IsImage(n) == Lower(n.ext) \in {"jpg", "jpeg", "png", "bmp", "gif"}

\* The k-th page of a served chapter: 001.jpg, 002.PNG, 003.txt, 004.jpg, ...
PageName(k) ==
  [w |-> 3, stem |-> k,
   ext |-> IF k % 3 = 1 THEN "jpg" ELSE IF k % 3 = 2 THEN "PNG" ELSE "txt"]

\* A page of a big chapter: every page is a .jpg
BigPageName(k) == [w |-> 3, stem |-> k, ext |-> "jpg"]

\* f"{index:06}{ext}" with ext = os.path.splitext(name)[1].lower()
OutName(index, name) == [w |-> 6, stem |-> index, ext |-> Lower(name.ext)]

\* ---------------------------------------------------------------- state
VARIABLES
  upscale_workers, \* PDFUpscaler threads started and not yet returned
  observed,        \* driver.current_url as the watcher's latest turn read it
  injections,      \* how many times the watcher replaced the page's button
  pc,              \* position of MangaDownloader.run ("absent": no fetch worker)
  output_format,   \* self.output_format: "cbz" or "pdf"
  download_all,    \* self.download_all
  is_cancelled,    \* self._is_cancelled
  browser,         \* the Firefox driver: "none", "open" or "quit"
  cookie_file,     \* comx_life_cookies_v2.json: "absent", "corrupt", "valid"
  cookies,         \* self.cookies: "none", "empty" or "set"
  url,             \* self.url: a sequence of path segments
  processed_url,   \* local of _auto_download_if_manga_page
  chapters,        \* local of download_manga: the reversed chapter list
  news_id,         \* local of download_manga
  manga_title_safe,\* local of download_manga
  i,               \* chapter loop index / part loop index
  dirs,            \* which of downloads/ and combined_temp/ exist
  downloads,       \* downloads/: file name -> [ch, names] (a fetched bundle)
  temp,            \* combined_temp/: page name -> page data
  outputs,         \* current directory: file name -> entries / pages written
  zips,            \* rest of sorted(Path(DOWNLOADS_DIR).glob("*.zip"))
  names,           \* rest of sorted(z.namelist()) of the archive being read
  index,           \* the AssemblyIndex counter of _create_cbz_archive
  image_files,     \* the flat page list of _create_auto_split_pdf
  part,            \* loop variable i of the part loop
  part_files,      \* local created_files of _create_auto_split_pdf
  created_files,   \* self.created_files
  fetch_log,       \* the chapter requests made so far: [ch, id, saved, zip]
  last_event,      \* the signal the worker's run() emitted last
  finished_count,  \* how many times the worker's finished was emitted
  finished_args,   \* the arguments of the last finished emission
  upc,             \* position of PDFUpscaler.run ("absent": no upscale worker)
  stop_flag,       \* self._stop_flag
  stop_logs,       \* log lines emitted by stop(), on the caller's thread
  input_files,     \* self.input_files
  folders,         \* the folders of the upscale stage that exist
  upscaled_dir,    \* upscaled/: output path -> pages of the document
  file_index,      \* loop variable of the file loop
  total_pages,     \* len(doc) of the input in hand
  image_paths,     \* pages extracted from the input in hand
  page,            \* turns made of the per-page upscale loop
  upscaled_image_paths, \* pages upscaled with exit code 0
  upscaled_files,  \* local of PDFUpscaler.run
  manga_title,     \* the text handed to the title sanitizer on its own
  sanitized,       \* what the sanitizer returned last
  calls,           \* how often the sanitizer was applied in a row
  download_button, \* MangaDownloaderApp: self.download_button.isEnabled()
  download_cancel_button, \* self.download_cancel_button is shown
  format_combo,    \* self.format_combo.currentText().lower()
  mode_combo,      \* self.mode_combo.currentIndex() == 0
  url_input,       \* self.url_input.text().strip(): "" or "set"
  reported,        \* what download_finished told the operator last
  started,         \* how many fetch workers the window has started
  cancelled_after_assembly \* cancel() was called with every artifact assembled

\* The sanitizer applied on its own; no worker touches these.
text_vars == << manga_title, sanitized, calls >>

\* What the watch-mode loop has done so far.
watch_hist == << observed, injections >>

\* The window's own state, apart from the two flags cancel() and the
\* finished slot work on.
app_inputs == << format_combo, mode_combo, url_input, started >>

app_vars ==
  << app_inputs, download_button, download_cancel_button, reported,
     cancelled_after_assembly >>

\* The upscale threads the window has running.
thread_vars == << upscale_workers >>

fetch_core ==
  << text_vars, watch_hist, app_vars, pc, output_format, download_all, is_cancelled, browser, cookie_file,
     cookies, url, processed_url, chapters, news_id, manga_title_safe, i,
     dirs, downloads, temp, outputs, zips, names, index, image_files,
     part, part_files, created_files, fetch_log >>

fetch_vars == << fetch_core, thread_vars >>

signal_vars == << last_event, finished_count, finished_args >>

upscale_state ==
  << upc, stop_flag, stop_logs, input_files, folders, upscaled_dir,
     file_index, total_pages, image_paths, page, upscaled_image_paths,
     upscaled_files >>

upscale_vars ==
  << text_vars, watch_hist, app_vars, upscale_state, thread_vars >>

EmptyFn == [x \in {} |-> x]

\* One file fewer in a directory.
Without(f, k) == [x \in DOMAIN f \ {k} |-> f[x]]

\* --------------------------------------------------------------- signals
\* An event is the last signal emitted, with the percent of the latest
\* progress signal so far.
ProgressLog(percent, tag, n) ==
  [kind |-> "log", tag |-> tag, n |-> n, percent |-> percent]

Log(tag, n) == ProgressLog(last_event.percent, tag, n)

Progress(percent) ==
  [kind |-> "progress", tag |-> "", n |-> percent, percent |-> percent]

NoEvent == [kind |-> "none", tag |-> "", n |-> 0, percent |-> 0]

\* self.finished.emit(ok, files)
EmitFinishedAt(ok, files, percent) ==
  /\ finished_count' = finished_count + 1
  /\ finished_args' = [ok |-> ok, files |-> files]
  /\ last_event' =
       [kind |-> "finished", tag |-> "", n |-> 0, percent |-> percent]

EmitFinished(ok, files) == EmitFinishedAt(ok, files, last_event.percent)

\* ------------------------------------------------------- what is observed
\* Locations the operator's browser can show, as path segments.
PageUrls == { << "12-manga.html" >>, << "manga.html" >> }

OtherUrls == { << "home" >>, << "read", "12-manga.html" >> }

\* current_url.endswith('/download')
EndsWithDownload(u) == Len(u) > 0 /\ u[Len(u)] = "download"

\* current_url.replace('/download', '')
ReplaceDownload(u) == SelectSeq(u, LAMBDA seg : seg # "download")

\* ".html" in current_url
HasHtml(u) == \E k \in 1..Len(u) : u[k] \in {"12-manga.html", "manga.html"}

\* "read" in current_url
HasRead(u) == \E k \in 1..Len(u) : u[k] = "read"

\* re.search(r'/(\d+)-', self.url)
UrlId(u) == IF \E k \in 1..Len(u) : u[k] = "12-manga.html" THEN "12" ELSE "none"

\* What driver.current_url can return: a page of the site, or, once the
\* injected button was clicked, the processed page with the trigger suffix.
ObservedUrls(processed) ==
  PageUrls \cup OtherUrls \cup
  (IF processed = << >> THEN {} ELSE { processed \o << "download" >> })

\* ------------------------------------------------------ the catalog block
\* Titles count down, remote ids are not ordered: neither follows the
\* chronological order of the work.
ChapterTitle(k) == << "C", "h", ".", DigitChar(9 - k) >>

\* The k-th chapter of the work, oldest first.
WorkChapter(k) == [id |-> 70 - ((k * 3) % 7), title |-> ChapterTitle(k)]

WorkChapters(n) == [k \in 1..n |-> WorkChapter(k)]

\* data["chapters"] as the page emits it: a prefix of the work, newest first.
BlockLists == { Reverse(WorkChapters(n)) : n \in 0..MaxChapters }

MangaTitle == << " ", "M", "y", ":", "b", " " >>

\* What requests.get(self.url).text holds between "window.__DATA__ =" and ";"
Blocks ==
  { [json |-> "ok", has_chapters |-> TRUE, chapters |-> c, has_title |-> TRUE,
     news_id |-> n] : c \in BlockLists, n \in {"12", "none"} }
  \cup { [json |-> "ok", has_chapters |-> FALSE, chapters |-> << >>,
          has_title |-> TRUE, news_id |-> "12"],
         [json |-> "ok", has_chapters |-> TRUE,
          chapters |-> Reverse(WorkChapters(1)), has_title |-> FALSE,
          news_id |-> "12"],
         [json |-> "invalid", has_chapters |-> FALSE, chapters |-> << >>,
          has_title |-> FALSE, news_id |-> "none"] }

RECURSIVE LStrip(_)
LStrip(s) == IF s # << >> /\ Head(s) = " " THEN LStrip(Tail(s)) ELSE s

\* str.strip()
Strip(s) == Reverse(LStrip(Reverse(LStrip(s))))

\* data.get("title", "Manga").strip()
TitleOf(block) ==
  Strip(IF block.has_title THEN MangaTitle ELSE << "M", "a", "n", "g", "a" >>)

\* ------------------------------------------------- what the server sends
PagesOf(n) == [k \in 1..n |-> PageName(k)]

RotateLeft(s) == IF s = << >> THEN s ELSE Tail(s) \o << Head(s) >>

\* The namelist of a served chapter archive, in the archive's own order:
\* small chapters of up to MaxSmallPages entries, and two long ones.
ServedArchives ==
  UNION { { Reverse(PagesOf(n)), RotateLeft(PagesOf(n)) } :
            n \in 0..MaxSmallPages }
  \cup { Reverse([k \in 1..n |-> BigPageName(k)]) :
            n \in { PAGES_PER_PDF, PAGES_PER_PDF + 1 } }

\* re.sub(r"[^\w\- ]", "_", f"{i:06}_{title}") + ".zip"
ZipName(seq, title) ==
  Sanitize(ZeroPad(seq, 6) \o << "_" >> \o title) \o << ".", "z", "i", "p" >>

\* f"{manga_title_safe}.cbz"
CbzName(title_safe) == title_safe \o << ".", "c", "b", "z" >>

\* f"{manga_title_safe}_part_{i+1:03d}.pdf"
PartName(title_safe, k) ==
  title_safe \o << "_", "p", "a", "r", "t", "_" >> \o ZeroPad(k, 3)
  \o << ".", "p", "d", "f" >>

\* A single document that is given a part number all the same.
PdfNameWithPart(title_safe) == PartName(title_safe, 1)

\* f"{manga_title_safe}.pdf"
PdfName(title_safe) == title_safe \o << ".", "p", "d", "f" >>


\* ------------------------------------------------------ MangaDownloader
\* Nothing was reported to the operator yet.
NoReport == [outcome |-> "none", files |-> << >>]

\* The working directory before a run when no earlier run left anything.
EmptyStaging ==
  /\ dirs = {}
  /\ downloads = EmptyFn
  /\ temp = EmptyFn

\* __init__: the state of a worker object about to be started, right after
\* start_download has started it, in a working directory in state `staging`.
StartedWorker(staging) ==
  /\ pc = "start"
  /\ upscale_workers = 0
  /\ observed = << >>
  /\ injections = 0
  /\ output_format \in {"cbz", "pdf"}
  /\ download_all \in BOOLEAN
  /\ is_cancelled = FALSE
  /\ browser = "none"
  /\ cookie_file \in {"absent", "corrupt", "valid"}
  /\ cookies = "none"
  /\ url = << >>
  /\ processed_url = << >>
  /\ chapters = << >>
  /\ news_id = "none"
  /\ manga_title_safe = << >>
  /\ i = 0
  /\ staging
  /\ outputs = EmptyFn
  /\ zips = << >>
  /\ names = << >>
  /\ index = 0
  /\ image_files = << >>
  /\ part = 0
  /\ part_files = << >>
  /\ created_files = << >>
  /\ fetch_log = << >>
  /\ last_event = NoEvent
  /\ finished_count = 0
  /\ finished_args = [ok |-> FALSE, files |-> << >>]
  /\ upc = "absent"
  /\ stop_flag = FALSE
  /\ stop_logs = 0
  /\ input_files = << >>
  /\ folders = {}
  /\ upscaled_dir = EmptyFn
  /\ file_index = 0
  /\ total_pages = 0
  /\ image_paths = << >>
  /\ page = 0
  /\ upscaled_image_paths = << >>
  /\ upscaled_files = << >>
  /\ manga_title = << >> /\ sanitized = << >> /\ calls = 0
  /\ download_button = FALSE
  /\ download_cancel_button = TRUE
  /\ format_combo = output_format
  /\ mode_combo = download_all
  /\ url_input = "set"
  /\ reported = NoReport
  /\ started = 1
  /\ cancelled_after_assembly = FALSE

\* A worker started in a clean working directory.
InitFetch == StartedWorker(EmptyStaging)

\* cleanup(): shutil.rmtree of each existing directory; a failing rmtree is
\* swallowed and leaves the directory as it was.  `kept` are the directories
\* whose removal fails.
CleanupDisk(kept) ==
  /\ dirs' = dirs \cap kept
  /\ downloads' = IF "downloads" \in kept THEN downloads ELSE EmptyFn
  /\ temp' = IF "combined_temp" \in kept THEN temp ELSE EmptyFn

\* The signal cleanup() leaves as the last one, if it emits any.
CleanupEvent(kept, before) ==
  IF dirs \ kept = {} THEN before ELSE Log("cleaned", 0)

\* The except clause of run(): log, finished(False, []).
RunExcept ==
  /\ EmitFinished(FALSE, << >>)
  /\ pc' = "done"

\* The except clauses of the two watchers: log, driver.quit(), finished(False, []).
WatcherExcept ==
  /\ browser' = "quit"
  /\ EmitFinished(FALSE, << >>)
  /\ pc' = "done"

\* Back in the watcher after download_manga(): finished(True, self.created_files).
WatcherFinished(files) ==
  /\ EmitFinished(TRUE, files)
  /\ pc' = "done"

\* run(), lines 131-139, and the first lines of the watcher it calls.
RunDispatch ==
  /\ pc' = IF download_all THEN "all_poll" ELSE "watch_poll"
  /\ last_event' = IF download_all
                   THEN ProgressLog(20, "waiting for a manga page", 0)
                   ELSE Progress(30)

run ==
  /\ pc = "start"
  /\ UNCHANGED upscale_vars
  /\ \E kept \in SUBSET dirs : CleanupDisk(kept)
  /\ last_event' = Progress(10)
  /\ pc' = "get_webdriver"
  /\ UNCHANGED << output_format, download_all, is_cancelled, browser,
                  cookie_file, cookies, url, processed_url, chapters, news_id,
                  manga_title_safe, i, outputs, zips, names, index,
                  image_files, part, part_files, created_files, finished_count,
                  finished_args,
                  fetch_log >>

\* The turns of a per-page loop already made for the chapter in hand.
TurnsMade == Len(downloads[Head(zips)].names) - Len(names)

\* Where the GUI thread's call can land: anywhere, except that inside the
\* per-page loops of a long chapter only the first and last CancelWindow turns
\* are explored.
CancelPoint ==
  pc \in {"cbz_name", "pdf_name"} =>
    TurnsMade < CancelWindow \/ Len(names) <= CancelWindow

\* Every artifact of the run is written in full and closed, and the run has
\* not been cancelled: the assembler's loops are over.
Assembled ==
  /\ ~is_cancelled
  /\ \/ pc = "cleanup"
     \/ pc \in {"cbz_end", "cbz_done"}
     \/ pc = "done" /\ finished_count = 1 /\ finished_args.ok
  /\ IF output_format = "pdf" THEN created_files # << >>
     ELSE CbzName(manga_title_safe) \in DOMAIN outputs

\* cancel(), called from the GUI thread
cancel ==
  /\ pc # "absent" /\ ~is_cancelled
  /\ UNCHANGED << text_vars, watch_hist, thread_vars, app_inputs,
                  download_button,
                  download_cancel_button, reported, upscale_state >>
  /\ CancelPoint
  /\ is_cancelled' = TRUE
  /\ cancelled_after_assembly' = Assembled
  /\ UNCHANGED << pc, output_format, download_all, browser, cookie_file,
                  cookies, url, processed_url, chapters, news_id,
                  manga_title_safe, i, dirs, downloads, temp, outputs, zips,
                  names, index, image_files, part, part_files, created_files,
                  last_event, finished_count, finished_args,
                  fetch_log >>

\* _open_browser_with_cookies, lines 161-170, around
\* _get_webdriver_with_autodownload: no driver found or downloaded, the
\* browser fails to launch, the lookup itself raises, or the browser starts.
_get_webdriver_with_autodownload ==
  /\ pc = "get_webdriver"
  /\ UNCHANGED upscale_vars
  /\ \E outcome \in {"not_found", "launch_error", "raises", "started"} :
       CASE outcome = "not_found" ->
              /\ last_event' = Log("driver not found", 0)
              /\ pc' = "done"
              /\ UNCHANGED << browser, finished_count, finished_args >>
         [] outcome = "launch_error" ->
              /\ last_event' = Log("browser launch error", 0)
              /\ pc' = "done"
              /\ UNCHANGED << browser, finished_count, finished_args >>
         [] outcome = "raises" ->
              /\ EmitFinished(FALSE, << >>)
              /\ pc' = "done"
              /\ UNCHANGED browser
         [] outcome = "started" ->
              /\ last_event' = Log("browser started", 0)
              /\ browser' = "open"
              /\ pc' = "driver_get"
              /\ UNCHANGED << finished_count, finished_args >>
  /\ UNCHANGED << output_format, download_all, is_cancelled, cookie_file,
                  cookies, url, processed_url, chapters, news_id,
                  manga_title_safe, i, dirs, downloads, temp, outputs, zips,
                  names, index, image_files, part, part_files, created_files,
                  fetch_log >>

\* _open_browser_with_cookies, line 172: driver.get of the home page.
driver_get ==
  /\ pc = "driver_get"
  /\ UNCHANGED upscale_vars
  /\ \E get_ok \in BOOLEAN :
       IF get_ok
       THEN /\ pc' = "restore_session"
            /\ UNCHANGED signal_vars
       ELSE \* driver.get raises: caught in run()
            RunExcept
  /\ UNCHANGED << output_format, download_all, is_cancelled, browser,
                  cookie_file, cookies, url, processed_url, chapters, news_id,
                  manga_title_safe, i, dirs, downloads, temp, outputs, zips,
                  names, index, image_files, part, part_files, created_files,
                  fetch_log >>

\* _open_browser_with_cookies, lines 174-196: replay the persisted cookies.
restore_session ==
  /\ pc = "restore_session"
  /\ UNCHANGED upscale_vars
  /\ \E alive \in BOOLEAN, jar \in {"set", "empty"} :
       IF cookie_file = "corrupt"
       THEN \* json.load raises: caught in run()
            /\ RunExcept
            /\ UNCHANGED cookies
       ELSE IF cookie_file = "valid" /\ alive
       THEN \* dle_user_id is there after the refresh
            /\ cookies' = jar
            /\ RunDispatch
            /\ UNCHANGED << finished_count, finished_args >>
       ELSE /\ last_event' = Log("log in manually", 0)
            /\ pc' = "wait_login"
            /\ UNCHANGED << cookies, finished_count, finished_args >>
  /\ UNCHANGED << output_format, download_all, is_cancelled, browser,
                  cookie_file, url, processed_url, chapters, news_id,
                  manga_title_safe, i, dirs, downloads, temp, outputs, zips,
                  names, index, image_files, part, part_files, created_files,
                  fetch_log >>

\* _open_browser_with_cookies, lines 198-209: one turn of the login wait.
wait_login ==
  /\ pc = "wait_login"
  /\ UNCHANGED upscale_vars
  /\ \E logged_in \in BOOLEAN, jar \in {"set", "empty"} :
       IF logged_in
       THEN /\ cookies' = jar
            /\ cookie_file' = "valid"
            /\ RunDispatch
            /\ UNCHANGED << browser, finished_count, finished_args >>
       ELSE IF is_cancelled
       THEN /\ browser' = "quit"
            /\ EmitFinished(FALSE, << >>)
            /\ pc' = "done"
            /\ UNCHANGED << cookies, cookie_file >>
       ELSE \* time.sleep(1)
            UNCHANGED << pc, cookies, cookie_file, browser, last_event,
                         finished_count, finished_args >>
  /\ UNCHANGED << output_format, download_all, is_cancelled, url,
                  processed_url, chapters, news_id, manga_title_safe, i, dirs,
                  downloads, temp, outputs, zips, names, index, image_files,
                  part, part_files, created_files,
                  fetch_log >>

\* _auto_download_if_manga_page, lines 387-389: the location with the
\* trigger suffix becomes self.url, the browser is quit, download_manga()
\* is entered.
StartDownload(current_url) ==
  /\ url' = ReplaceDownload(current_url)
  /\ last_event' = Log("starting download", 0)
  /\ browser' = "quit"
  /\ pc' = "load_cookies"
  /\ observed' = current_url

\* The locations a turn of the watcher can read: any the browser can show,
\* except that after MaxInjections replaced buttons no further page with a
\* button to replace is visited.
WatchedUrls ==
  { u \in ObservedUrls(processed_url) :
      injections = MaxInjections =>
        (EndsWithDownload(u) \/ ~HasHtml(u) \/ u = processed_url) }

\* A watcher that replaces the button of every detail page it sees.
_auto_download_if_manga_page_reinjects ==
  /\ pc = "watch_poll" /\ ~is_cancelled
  /\ UNCHANGED << text_vars, app_vars, upscale_state, thread_vars >>
  /\ \E current_url \in ObservedUrls(processed_url) :
       /\ HasHtml(current_url) /\ injections < MaxInjections
       /\ observed' = current_url
       /\ processed_url' = current_url
       /\ injections' = injections + 1
       /\ last_event' = Log("button replaced", 0)
  /\ UNCHANGED << pc, browser, url, finished_count, finished_args,
                  output_format, download_all, is_cancelled, cookie_file,
                  cookies, chapters, news_id, manga_title_safe, i, dirs,
                  downloads, temp, outputs, zips, names, index, image_files,
                  part, part_files, created_files, fetch_log >>

\* _auto_download_if_manga_page: one turn of the polling loop.
_auto_download_if_manga_page ==
  /\ pc = "watch_poll"
  /\ UNCHANGED << text_vars, app_vars, upscale_state, thread_vars >>
  /\ IF is_cancelled
     THEN \* the while condition fails: the function and run() return
          /\ pc' = "done"
          /\ UNCHANGED << browser, url, processed_url, last_event,
                          finished_count, finished_args, watch_hist >>
     ELSE \E raises \in BOOLEAN, current_url \in WatchedUrls,
             found \in BOOLEAN :
          IF raises
          THEN \* driver.current_url raises: the outer except, lines 413-417
               /\ WatcherExcept
               /\ UNCHANGED << url, processed_url, watch_hist >>
          ELSE IF EndsWithDownload(current_url)
          THEN /\ StartDownload(current_url)
               /\ UNCHANGED << processed_url, injections, finished_count,
                               finished_args >>
          ELSE IF HasHtml(current_url) /\ current_url # processed_url
          THEN /\ processed_url' = IF found THEN current_url ELSE processed_url
               /\ injections' = IF found THEN injections + 1 ELSE injections
               /\ last_event' = IF found THEN Log("button replaced", 0)
                                ELSE Log("button not found", 0)
               /\ observed' = current_url
               /\ UNCHANGED << pc, browser, url, finished_count, finished_args >>
          ELSE \* time.sleep(0.1)
               /\ observed' = current_url
               /\ UNCHANGED << pc, browser, url, processed_url, injections,
                               last_event, finished_count, finished_args >>
  /\ UNCHANGED << output_format, download_all, is_cancelled, cookie_file,
                  cookies, chapters, news_id, manga_title_safe, i, dirs,
                  downloads, temp, outputs, zips, names, index, image_files,
                  part, part_files, created_files,
                  fetch_log >>

\* _download_all_manga, lines 427-432: one turn of the polling loop.
_download_all_manga ==
  /\ pc = "all_poll"
  /\ UNCHANGED upscale_vars
  /\ IF is_cancelled
     THEN \* the loop ends; line 434 quits the browser and returns
          /\ browser' = "quit"
          /\ pc' = "done"
          /\ UNCHANGED << url, last_event, finished_count, finished_args >>
     ELSE \E raises \in BOOLEAN, current_url \in ObservedUrls(<< >>) :
          IF raises
          THEN /\ WatcherExcept
               /\ UNCHANGED url
          ELSE IF HasHtml(current_url) /\ ~HasRead(current_url)
          THEN \* manga_url = current_url; break
               /\ url' = current_url
               /\ pc' = "all_found"
               /\ UNCHANGED << browser, last_event, finished_count,
                               finished_args >>
          ELSE \* time.sleep(1)
               UNCHANGED << pc, browser, url, last_event, finished_count,
                            finished_args >>
  /\ UNCHANGED << output_format, download_all, is_cancelled, cookie_file,
                  cookies, processed_url, chapters, news_id, manga_title_safe,
                  i, dirs, downloads, temp, outputs, zips, names, index,
                  image_files, part, part_files, created_files,
                  fetch_log >>

\* _download_all_manga, lines 434-442: after the loop.
_download_all_manga_found ==
  /\ pc = "all_found"
  /\ UNCHANGED upscale_vars
  /\ browser' = "quit"
  /\ IF is_cancelled
     THEN /\ pc' = "done"
          /\ UNCHANGED last_event
     ELSE /\ last_event' = Log("manga found", 0)
          /\ pc' = "load_cookies"
  /\ UNCHANGED << output_format, download_all, is_cancelled, cookie_file,
                  cookies, url, processed_url, chapters, news_id,
                  manga_title_safe, i, dirs, downloads, temp, outputs, zips,
                  names, index, image_files, part, part_files, created_files,
                  finished_count, finished_args,
                  fetch_log >>

\* The chapter list taken as the page emits it.
ChaptersUnreversed(block) == block.chapters

\* data["chapters"][::-1]
ChaptersOf(block) == Reverse(block.chapters)

\* data.get("news_id"), else the digits of the URL, else nothing
NewsIdOf(block, u) == IF block.news_id # "none" THEN block.news_id ELSE UrlId(u)

\* download_manga, line 453, _load_cookies, and the first lines of
\* _get_manga_data (497-499), up to its request.
_load_cookies ==
  /\ pc = "load_cookies"
  /\ UNCHANGED upscale_vars
  /\ \E readable \in BOOLEAN :
       IF cookies = "set"
       THEN /\ pc' = "get_manga_data"
            /\ last_event' = Progress(50)
            /\ UNCHANGED << cookies, finished_count, finished_args >>
       ELSE IF readable /\ cookie_file = "valid"
       THEN /\ cookies' = "set"
            /\ last_event' = Progress(50)
            /\ pc' = "get_manga_data"
            /\ UNCHANGED << finished_count, finished_args >>
       ELSE \* return False; download_manga returns to the watcher
            /\ WatcherFinished(created_files)
            /\ UNCHANGED cookies
  /\ UNCHANGED << output_format, download_all, is_cancelled, browser,
                  cookie_file, url, processed_url, chapters, news_id,
                  manga_title_safe, i, dirs, downloads, temp, outputs, zips,
                  names, index, image_files, part, part_files, created_files,
                  fetch_log >>

\* download_manga, lines 456-464: _get_manga_data, _prepare_directories and
\* the first line of _download_chapters.
_get_manga_data ==
  /\ pc = "get_manga_data"
  /\ UNCHANGED upscale_vars
  /\ \E get_ok \in BOOLEAN, has_block \in BOOLEAN, block \in Blocks :
       IF ~get_ok \/ (has_block /\ (block.json # "ok" \/ ~block.has_chapters))
       THEN \* requests.get, json.loads or data["chapters"] raises
            /\ WatcherExcept
            /\ UNCHANGED << chapters, news_id, manga_title_safe, i, dirs >>
       ELSE IF ~has_block \/ NewsIdOf(block, url) = "none"
       THEN \* return None; download_manga returns to the watcher
            /\ WatcherFinished(created_files)
            /\ UNCHANGED << browser, chapters, news_id, manga_title_safe, i,
                            dirs >>
       ELSE /\ chapters' = ChaptersOf(block)
            /\ news_id' = NewsIdOf(block, url)
            /\ manga_title_safe' = Sanitize(TitleOf(block))
            /\ dirs' = dirs \cup {"downloads", "combined_temp"}
            /\ i' = 1
            /\ last_event' = Log("chapter count", Len(block.chapters))
            /\ pc' = "chapter_loop"
            /\ UNCHANGED << browser, finished_count, finished_args >>
  /\ UNCHANGED << output_format, download_all, is_cancelled, cookie_file,
                  cookies, url, processed_url, downloads, temp, outputs, zips,
                  names, index, image_files, part, part_files, created_files,
                  fetch_log >>

\* A chapter percent that leaves out the 50 the fetch stage starts from.
ChapterPercentNoBase(k, n) == (k * 40) \div n

\* int(50 + (i / len(chapters)) * 40), line 552
ChapterPercent(k, n) == 50 + (k * 40) \div n

\* A loop head that does not look at the cancellation flag.
_download_chapters_ignores_cancel ==
  /\ pc = "chapter_loop"
  /\ UNCHANGED upscale_vars
  /\ IF i > Len(chapters)
     THEN /\ pc' = "assemble"
          /\ UNCHANGED last_event
     ELSE /\ last_event' =
               ProgressLog(ChapterPercent(i, Len(chapters)), "chapter", i)
          /\ pc' = "fetching"
  /\ UNCHANGED << output_format, download_all, is_cancelled, browser,
                  cookie_file, cookies, url, processed_url, chapters, news_id,
                  manga_title_safe, i, dirs, downloads, temp, outputs, zips,
                  names, index, image_files, part, part_files, created_files,
                  finished_count, finished_args, fetch_log >>

\* _download_chapters, lines 541-554: the head of one loop turn.
_download_chapters ==
  /\ pc = "chapter_loop"
  /\ UNCHANGED upscale_vars
  /\ IF i > Len(chapters)
     THEN \* the loop is over: back in download_manga, line 466
          /\ pc' = "assemble"
          /\ UNCHANGED << dirs, downloads, temp, last_event >>
     ELSE IF is_cancelled
     THEN /\ \E kept \in SUBSET dirs :
               /\ CleanupDisk(kept)
               /\ last_event' = CleanupEvent(kept, Log("download cancelled", 0))
          /\ pc' = "assemble"
     ELSE /\ last_event' =
               ProgressLog(ChapterPercent(i, Len(chapters)), "chapter", i)
          /\ pc' = "fetching"
          /\ UNCHANGED << dirs, downloads, temp >>
  /\ UNCHANGED << output_format, download_all, is_cancelled, browser,
                  cookie_file, cookies, url, processed_url, chapters, news_id,
                  manga_title_safe, i, outputs, zips, names, index,
                  image_files, part, part_files, created_files, finished_count,
                  finished_args,
                  fetch_log >>

\* What the two requests of _download_chapter can come back with.
\* A content response that is OK carries a zip archive, or bytes that are none.
ChapterResponses ==
  { [status |-> st, zip |-> FALSE, names |-> << >>] :
      st \in {"api_error", "no_data", "not_ok", "raises"} }
  \cup { [status |-> "ok", zip |-> TRUE, names |-> a] : a \in ServedArchives }
  \cup { [status |-> "ok", zip |-> FALSE, names |-> << >>] }

\* A failed chapter whose error escapes to the watcher's except clause.
ChapterFailedFatal ==
  /\ WatcherExcept
  /\ UNCHANGED downloads

\* A failed chapter that leaves a bundle file behind.
ChapterFailedLeavesFile ==
  /\ last_event' = Log("chapter error", i)
  /\ pc' = "delay"
  /\ downloads' =
       IF "downloads" \in dirs
       THEN (ZipName(i, chapters[i].title) :>
               [ch |-> i, zip |-> TRUE, names |-> PagesOf(1)]) @@ downloads
       ELSE downloads
  /\ UNCHANGED << browser, finished_count, finished_args >>

\* A failed chapter after which the loop goes straight on to its next turn.
ChapterFailedNoDelay ==
  /\ last_event' = Log("chapter error", i)
  /\ pc' = "chapter_loop"
  /\ UNCHANGED << downloads, browser, finished_count, finished_args >>

\* _download_chapter returned False (lines 595-601): logged, nothing written.
ChapterFailed ==
  /\ last_event' = Log("chapter error", i)
  /\ pc' = "delay"
  /\ UNCHANGED << downloads, browser, finished_count, finished_args >>

\* _download_chapter, and line 557 of _download_chapters
_download_chapter ==
  /\ pc = "fetching"
  /\ UNCHANGED upscale_vars
  /\ \E resp \in ChapterResponses :
       /\ IF resp.status = "ok" /\ "downloads" \in dirs
          THEN /\ downloads' =
                    (ZipName(i, chapters[i].title) :>
                       [ch |-> i, zip |-> resp.zip, names |-> resp.names])
                    @@ downloads
               /\ last_event' = Log("downloaded", i)
               /\ pc' = "delay"
               /\ UNCHANGED << browser, finished_count, finished_args >>
          ELSE ChapterFailed
       /\ fetch_log' =
            Append(fetch_log,
                   [ch |-> i, id |-> chapters[i].id,
                    saved |-> resp.status = "ok" /\ "downloads" \in dirs,
                    zip |-> resp.zip])
  /\ UNCHANGED << output_format, download_all, is_cancelled, cookie_file,
                  cookies, url, processed_url, chapters, news_id,
                  manga_title_safe, i, dirs, temp, outputs, zips, names, index,
                  image_files, part, part_files, created_files >>

\* A loop turn that is followed by a turn for the same chapter.
request_delay_same_chapter ==
  /\ pc = "delay"
  /\ pc' = "chapter_loop"
  /\ UNCHANGED << upscale_vars, signal_vars, output_format, download_all,
                  is_cancelled, browser, cookie_file, cookies, url,
                  processed_url, chapters, news_id, manga_title_safe, i, dirs,
                  downloads, temp, outputs, zips, names, index, image_files,
                  part, part_files, created_files, fetch_log >>

\* _download_chapters, line 559: time.sleep(REQUEST_DELAY), then the next turn
request_delay ==
  /\ pc = "delay"
  /\ UNCHANGED upscale_vars
  /\ i' = i + 1
  /\ pc' = "chapter_loop"
  /\ UNCHANGED << output_format, download_all, is_cancelled, browser,
                  cookie_file, cookies, url, processed_url, chapters, news_id,
                  manga_title_safe, dirs, downloads, temp, outputs, zips, names,
                  index, image_files, part, part_files, created_files,
                  last_event, finished_count, finished_args,
                  fetch_log >>

\* sorted(Path(self.DOWNLOADS_DIR).glob("*.zip"))
SortedZips == SortedTexts(DOMAIN downloads)

\* A download_manga that calls the assembler whether or not the run was
\* cancelled.
download_manga_unguarded ==
  /\ pc = "assemble"
  /\ UNCHANGED upscale_vars
  /\ IF output_format = "pdf"
     THEN /\ image_files' = << >>
          /\ zips' = SortedZips
          /\ last_event' = Progress(95)
          /\ pc' = "pdf_zip"
          /\ UNCHANGED << outputs, index >>
     ELSE /\ outputs' = (CbzName(manga_title_safe) :> << >>) @@ outputs
          /\ index' = 1
          /\ zips' = SortedZips
          /\ last_event' = Progress(95)
          /\ pc' = "cbz_zip"
          /\ UNCHANGED image_files
  /\ UNCHANGED << output_format, download_all, is_cancelled, browser,
                  cookie_file, cookies, url, processed_url, chapters, news_id,
                  manga_title_safe, i, dirs, downloads, temp, names, part,
                  part_files, created_files, finished_count, finished_args,
                  fetch_log >>

\* download_manga, lines 466-474, and the first lines of the assembler called.
download_manga ==
  /\ pc = "assemble"
  /\ UNCHANGED upscale_vars
  /\ IF is_cancelled
     THEN /\ pc' = "cleanup"
          /\ UNCHANGED << outputs, zips, index, image_files, last_event >>
     ELSE IF output_format = "pdf"
     THEN /\ image_files' = << >>
          /\ zips' = SortedZips
          /\ last_event' = Progress(95)
          /\ pc' = "pdf_zip"
          /\ UNCHANGED << outputs, index >>
     ELSE \* zipfile.ZipFile(final_cbz, "w") creates the file
          /\ outputs' = (CbzName(manga_title_safe) :> << >>) @@ outputs
          /\ index' = 1
          /\ zips' = SortedZips
          /\ last_event' = Progress(95)
          /\ pc' = "cbz_zip"
          /\ UNCHANGED image_files
  /\ UNCHANGED << output_format, download_all, is_cancelled, browser,
                  cookie_file, cookies, url, processed_url, chapters, news_id,
                  manga_title_safe, i, dirs, downloads, temp, names, part,
                  part_files, created_files, finished_count, finished_args,
                  fetch_log >>

\* The bytes of entry `name` of the fetched bundle `zip`.
PageData(zip, name) == [ch |-> downloads[zip].ch, name |-> name]

\* _create_cbz_archive, lines 610-615: the head of one turn of the outer loop.
_create_cbz_archive ==
  /\ pc = "cbz_zip"
  /\ UNCHANGED upscale_vars
  /\ IF zips = << >>
     THEN /\ pc' = "cbz_end"
          /\ UNCHANGED << names, last_event, browser, finished_count,
                          finished_args >>
     ELSE IF is_cancelled
     THEN /\ last_event' = Log("archiving cancelled", 0)
          /\ pc' = "cbz_end"
          /\ UNCHANGED << names, browser, finished_count, finished_args >>
     ELSE IF ~downloads[Head(zips)].zip
     THEN \* zipfile.ZipFile(zip_file) raises: the watcher's except clause
          /\ WatcherExcept
          /\ UNCHANGED names
     ELSE /\ names' = SortedNames(downloads[Head(zips)].names)
          /\ pc' = "cbz_name"
          /\ UNCHANGED << last_event, browser, finished_count, finished_args >>
  /\ UNCHANGED << output_format, download_all, is_cancelled,
                  cookie_file, cookies, url, processed_url, chapters, news_id,
                  manga_title_safe, i, dirs, downloads, temp, outputs, zips,
                  index, image_files, part, part_files, created_files,
                  fetch_log >>

\* _create_cbz_archive, lines 616-626: one turn of the inner loop.
_create_cbz_archive_page ==
  /\ pc = "cbz_name"
  /\ UNCHANGED upscale_vars
  /\ IF names = << >> \/ is_cancelled
     THEN \* the inner loop ends or breaks: next turn of the outer loop
          /\ zips' = Tail(zips)
          /\ names' = << >>
          /\ pc' = "cbz_zip"
          /\ UNCHANGED << temp, outputs, index >>
     ELSE LET name == Head(names)
              out_name == OutName(index, name)
              extracted == (name :> PageData(Head(zips), name)) @@ temp
              renamed == (out_name :> extracted[name]) @@ Without(extracted, name)
              final_cbz == CbzName(manga_title_safe)
          IN  /\ temp' = renamed
              /\ outputs' =
                   [outputs EXCEPT ![final_cbz] =
                      Append(@, [arcname |-> out_name, data |-> renamed[out_name]])]
              /\ index' = index + 1
              /\ names' = Tail(names)
              /\ UNCHANGED << zips, pc >>
  /\ UNCHANGED << output_format, download_all, is_cancelled, browser,
                  cookie_file, cookies, url, processed_url, chapters, news_id,
                  manga_title_safe, i, dirs, downloads, image_files, part,
                  part_files, created_files, last_event, finished_count,
                  finished_args,
                  fetch_log >>

\* An end of _create_cbz_archive that leaves the archive whatever happened.
_create_cbz_archive_end_keeps ==
  /\ pc = "cbz_end"
  /\ pc' = "cbz_done"
  /\ UNCHANGED << upscale_vars, signal_vars, output_format, download_all,
                  is_cancelled, browser, cookie_file, cookies, url,
                  processed_url, chapters, news_id, manga_title_safe, i, dirs,
                  downloads, temp, outputs, zips, names, index, image_files,
                  part, part_files, created_files, fetch_log >>

\* _create_cbz_archive, lines 628-633: the archive is closed; a cancelled run
\* unlinks it, which can fail.
_create_cbz_archive_end ==
  /\ pc = "cbz_end"
  /\ UNCHANGED upscale_vars
  /\ \E unlinked \in BOOLEAN :
       IF is_cancelled /\ CbzName(manga_title_safe) \in DOMAIN outputs
       THEN /\ outputs' = IF unlinked
                          THEN Without(outputs, CbzName(manga_title_safe))
                          ELSE outputs
            /\ last_event' = IF unlinked THEN Log("partial archive removed", 0)
                             ELSE Log("archive not removed", 0)
       ELSE UNCHANGED << outputs, last_event >>
  /\ pc' = "cbz_done"
  /\ UNCHANGED << output_format, download_all, is_cancelled, browser,
                  cookie_file, cookies, url, processed_url, chapters, news_id,
                  manga_title_safe, i, dirs, downloads, temp, zips, names,
                  index, image_files, part, part_files, created_files,
                  finished_count, finished_args,
                  fetch_log >>

\* A bundle-mode run that lists its archive among the created files.
download_manga_cbz_done_lists ==
  /\ pc = "cbz_done"
  /\ UNCHANGED upscale_vars
  /\ last_event' =
       IF ~is_cancelled /\ CbzName(manga_title_safe) \in DOMAIN outputs
       THEN Log("done", 0) ELSE last_event
  /\ created_files' =
       IF ~is_cancelled /\ CbzName(manga_title_safe) \in DOMAIN outputs
       THEN Append(created_files, CbzName(manga_title_safe))
       ELSE created_files
  /\ pc' = "cleanup"
  /\ UNCHANGED << output_format, download_all, is_cancelled, browser,
                  cookie_file, cookies, url, processed_url, chapters, news_id,
                  manga_title_safe, i, dirs, downloads, temp, outputs, zips,
                  names, index, image_files, part, part_files,
                  finished_count, finished_args, fetch_log >>

\* download_manga, lines 475-476
download_manga_cbz_done ==
  /\ pc = "cbz_done"
  /\ UNCHANGED upscale_vars
  /\ last_event' =
       IF ~is_cancelled /\ CbzName(manga_title_safe) \in DOMAIN outputs
       THEN Log("done", 0) ELSE last_event
  /\ pc' = "cleanup"
  /\ UNCHANGED << output_format, download_all, is_cancelled, browser,
                  cookie_file, cookies, url, processed_url, chapters, news_id,
                  manga_title_safe, i, dirs, downloads, temp, outputs, zips,
                  names, index, image_files, part, part_files, created_files,
                  finished_count, finished_args,
                  fetch_log >>

\* z.extractall(path=Path(self.TEMP_DIR)): every entry lands under its own
\* name in the one temp directory, over whatever was there.
ExtractAll(zip) ==
  LET entries == Range(downloads[zip].names)
  IN  [n \in DOMAIN temp \cup entries |->
         IF n \in entries THEN PageData(zip, n) ELSE temp[n]]

\* _create_auto_split_pdf, lines 642-648: the head of one turn of the outer loop.
_create_auto_split_pdf ==
  /\ pc = "pdf_zip"
  /\ UNCHANGED upscale_vars
  /\ IF zips = << >>
     THEN /\ pc' = "pdf_check"
          /\ UNCHANGED << temp, names, last_event, browser, finished_count,
                          finished_args >>
     ELSE IF is_cancelled
     THEN /\ last_event' = Log("pdf cancelled", 0)
          /\ pc' = "pdf_check"
          /\ UNCHANGED << temp, names, browser, finished_count, finished_args >>
     ELSE IF ~downloads[Head(zips)].zip
     THEN \* zipfile.ZipFile(zip_file) raises: the watcher's except clause
          /\ WatcherExcept
          /\ UNCHANGED << temp, names >>
     ELSE /\ temp' = ExtractAll(Head(zips))
          /\ names' = SortedNames(downloads[Head(zips)].names)
          /\ pc' = "pdf_name"
          /\ UNCHANGED << last_event, browser, finished_count, finished_args >>
  /\ UNCHANGED << output_format, download_all, is_cancelled,
                  cookie_file, cookies, url, processed_url, chapters, news_id,
                  manga_title_safe, i, dirs, downloads, outputs, zips, index,
                  image_files, part, part_files, created_files,
                  fetch_log >>

\* _create_auto_split_pdf, lines 650-657: one turn of the inner loop.
_create_auto_split_pdf_page ==
  /\ pc = "pdf_name"
  /\ UNCHANGED upscale_vars
  /\ IF names = << >> \/ is_cancelled
     THEN /\ zips' = Tail(zips)
          /\ names' = << >>
          /\ pc' = "pdf_zip"
          /\ UNCHANGED image_files
     ELSE /\ image_files' =
               IF IsImage(Head(names)) /\ Head(names) \in DOMAIN temp
               THEN Append(image_files, Head(names)) ELSE image_files
          /\ names' = Tail(names)
          /\ UNCHANGED << zips, pc >>
  /\ UNCHANGED << output_format, download_all, is_cancelled, browser,
                  cookie_file, cookies, url, processed_url, chapters, news_id,
                  manga_title_safe, i, dirs, downloads, temp, outputs, index,
                  part, part_files, created_files, last_event, finished_count,
                  finished_args,
                  fetch_log >>

\* img2pdf.convert(paths): the pages are read from the temp directory now.
Convert(paths) == [k \in 1..Len(paths) |-> temp[paths[k]]]

\* (total_pages + PAGES_PER_PDF - 1) // PAGES_PER_PDF
NumFiles(total) == (total + PAGES_PER_PDF - 1) \div PAGES_PER_PDF

Min(a, b) == IF a < b THEN a ELSE b

\* A slice whose end index is taken inclusive.
PartImagesInclusive(files, k) ==
  SubSeq(files, k * PAGES_PER_PDF + 1,
         Min((k + 1) * PAGES_PER_PDF + 1, Len(files)))

\* image_files[start_idx:end_idx] of part i (0-based)
PartImages(files, k) ==
  SubSeq(files, k * PAGES_PER_PDF + 1, Min((k + 1) * PAGES_PER_PDF, Len(files)))

\* _create_auto_split_pdf, lines 659-689: no pages, cancelled, the single
\* document, or the start of the part loop.  open() creates the file before
\* convert() can raise.
_create_auto_split_pdf_single ==
  /\ pc = "pdf_check"
  /\ UNCHANGED upscale_vars
  /\ \E converted \in BOOLEAN :
       IF image_files = << >>
       THEN /\ last_event' = Log("no images", 0)
            /\ pc' = "cleanup"
            /\ UNCHANGED << outputs, created_files, part, part_files >>
       ELSE IF is_cancelled
       THEN /\ pc' = "cleanup"
            /\ UNCHANGED << outputs, created_files, part, part_files,
                            last_event >>
       ELSE IF Len(image_files) <= PAGES_PER_PDF
       THEN /\ outputs' =
                 (PdfName(manga_title_safe) :>
                    (IF converted THEN Convert(image_files) ELSE << >>))
                 @@ outputs
            /\ created_files' =
                 IF converted
                 THEN Append(created_files, PdfName(manga_title_safe))
                 ELSE created_files
            /\ last_event' = IF converted THEN Log("created", 0)
                             ELSE Log("pdf error", 0)
            /\ pc' = "cleanup"
            /\ UNCHANGED << part, part_files >>
       ELSE /\ part' = 0
            /\ part_files' = << >>
            /\ last_event' = Log("total pages", Len(image_files))
            /\ pc' = "pdf_part"
            /\ UNCHANGED << outputs, created_files >>
  /\ UNCHANGED << output_format, download_all, is_cancelled, browser,
                  cookie_file, cookies, url, processed_url, chapters, news_id,
                  manga_title_safe, i, dirs, downloads, temp, zips, names,
                  index, image_files, finished_count, finished_args,
                  fetch_log >>

\* A part loop that gives up at the first part whose conversion fails.
_create_auto_split_pdf_part_stops ==
  /\ pc = "pdf_part"
  /\ UNCHANGED upscale_vars
  /\ \E converted \in BOOLEAN :
       IF part >= NumFiles(Len(image_files)) \/ is_cancelled
       THEN /\ pc' = "cleanup"
            /\ last_event' = IF part_files = << >> THEN last_event
                             ELSE Log("created", Len(part_files))
            /\ UNCHANGED << outputs, created_files, part, part_files >>
       ELSE LET pdf_name == PartName(manga_title_safe, part + 1)
            IN  /\ outputs' =
                     (pdf_name :>
                        (IF converted THEN Convert(PartImages(image_files, part))
                         ELSE << >>))
                     @@ outputs
                /\ created_files' = IF converted
                                    THEN Append(created_files, pdf_name)
                                    ELSE created_files
                /\ part_files' = IF converted THEN Append(part_files, pdf_name)
                                 ELSE part_files
                /\ last_event' = IF converted THEN Log("created", part + 1)
                                 ELSE Log("pdf error", part + 1)
                /\ part' = part + 1
                /\ pc' = IF converted THEN pc ELSE "cleanup"
  /\ UNCHANGED << output_format, download_all, is_cancelled, browser,
                  cookie_file, cookies, url, processed_url, chapters, news_id,
                  manga_title_safe, i, dirs, downloads, temp, zips, names,
                  index, image_files, finished_count, finished_args,
                  fetch_log >>

\* _create_auto_split_pdf, lines 691-716: one turn of the part loop.
_create_auto_split_pdf_part ==
  /\ pc = "pdf_part"
  /\ UNCHANGED upscale_vars
  /\ \E converted \in BOOLEAN :
       IF part >= NumFiles(Len(image_files)) \/ is_cancelled
       THEN \* return created_files; download_manga logs each of them
            /\ pc' = "cleanup"
            /\ last_event' = IF part_files = << >> THEN last_event
                             ELSE Log("created", Len(part_files))
            /\ UNCHANGED << outputs, created_files, part, part_files >>
       ELSE LET pdf_name == PartName(manga_title_safe, part + 1)
            IN  /\ outputs' =
                     (pdf_name :>
                        (IF converted THEN Convert(PartImages(image_files, part))
                         ELSE << >>))
                     @@ outputs
                /\ created_files' = IF converted
                                    THEN Append(created_files, pdf_name)
                                    ELSE created_files
                /\ part_files' = IF converted THEN Append(part_files, pdf_name)
                                 ELSE part_files
                /\ last_event' = IF converted THEN Log("created", part + 1)
                                 ELSE Log("pdf error", part + 1)
                /\ part' = part + 1
                /\ UNCHANGED pc
  /\ UNCHANGED << output_format, download_all, is_cancelled, browser,
                  cookie_file, cookies, url, processed_url, chapters, news_id,
                  manga_title_safe, i, dirs, downloads, temp, zips, names,
                  index, image_files, finished_count, finished_args,
                  fetch_log >>

\* download_manga, line 478, and the watcher's finished.emit(True, ...)
download_manga_cleanup ==
  /\ pc = "cleanup"
  /\ UNCHANGED upscale_vars
  /\ \E kept \in SUBSET dirs : CleanupDisk(kept)
  /\ WatcherFinished(created_files)
  /\ UNCHANGED << output_format, download_all, is_cancelled, browser,
                  cookie_file, cookies, url, processed_url, chapters, news_id,
                  manga_title_safe, i, outputs, zips, names, index,
                  image_files, part, part_files, created_files,
                  fetch_log >>


\* ---------------------------------------------------------- PDFUpscaler
\* The lists start_upscale can hand over: a run's created_files, never empty.
InputLists ==
  { << PdfName(<< "t" >>) >> }
  \cup { [k \in 1..n |-> PartName(<< "t" >>, k)] : n \in 2..MaxInputFiles }

\* os.path.join(self.output_folder, os.path.basename(input_pdf))
OutputPath(input_pdf) ==
  << "u", "p", "s", "c", "a", "l", "e", "d", "/" >> \o input_pdf

OutputFolder == [kind |-> "upscaled", n |-> 0]

\* f'temp_pdf_images_{file_index}'
TempImgFolder(n) == [kind |-> "temp_pdf_images", n |-> n]

\* f'upscaled_pdf_images_{file_index}'
UpscaledImgFolder(n) == [kind |-> "upscaled_pdf_images", n |-> n]

\* The content of an output document that an earlier run left behind.
EarlierOutput == << 0 >>

\* __init__, and what is on disk when the worker is started.
InitUpscale ==
  /\ upc = "start"
  /\ upscale_workers = 1
  /\ observed = << >>
  /\ injections = 0
  /\ stop_flag = FALSE
  /\ stop_logs = 0
  /\ input_files \in InputLists
  /\ upscaled_dir \in
       UNION { [S -> {EarlierOutput}] :
                 S \in SUBSET { OutputPath(f) : f \in Range(input_files) } }
  /\ folders \in { F \in SUBSET {OutputFolder} :
                     upscaled_dir # EmptyFn => OutputFolder \in F }
  /\ file_index = 0
  /\ total_pages = 0
  /\ image_paths = << >>
  /\ page = 0
  /\ upscaled_image_paths = << >>
  /\ upscaled_files = << >>
  /\ manga_title = << >> /\ sanitized = << >> /\ calls = 0
  /\ download_button = TRUE
  /\ download_cancel_button = FALSE
  /\ format_combo = "pdf"
  /\ mode_combo = FALSE
  /\ url_input = "set"
  /\ reported = [outcome |-> "success", files |-> input_files]
  /\ started = 1
  /\ cancelled_after_assembly = FALSE
  /\ last_event = NoEvent
  /\ finished_count = 0
  /\ finished_args = [ok |-> FALSE, files |-> << >>]
  /\ pc = "absent"
  /\ output_format = "pdf"
  /\ download_all = FALSE
  /\ is_cancelled = FALSE
  /\ browser = "none"
  /\ cookie_file = "absent"
  /\ cookies = "none"
  /\ url = << >>
  /\ processed_url = << >>
  /\ chapters = << >>
  /\ news_id = "none"
  /\ manga_title_safe = << >>
  /\ i = 0
  /\ dirs = {}
  /\ downloads = EmptyFn
  /\ temp = EmptyFn
  /\ outputs = EmptyFn
  /\ zips = << >>
  /\ names = << >>
  /\ index = 0
  /\ image_files = << >>
  /\ part = 0
  /\ part_files = << >>
  /\ created_files = << >>
  /\ fetch_log = << >>

\* The variables of the file in hand, left alone.
file_locals == << total_pages, image_paths, page, upscaled_image_paths >>

\* [temp_img_folder, upscaled_img_folder] of the file in hand
FileFolders == {TempImgFolder(file_index), UpscaledImgFolder(file_index)}

\* _cleanup_folders([temp_img_folder, upscaled_img_folder]): a failing
\* os.remove or os.rmdir is swallowed and leaves the folder.  `kept` are the
\* folders whose removal fails.
_cleanup_folders(kept) == folders' = folders \ (FileFolders \ kept)

\* The except clause of the per-file try (lines 902-903): log, next file.
FileExcept ==
  /\ last_event' = Log("file error", file_index)
  /\ file_index' = file_index + 1
  /\ upc' = "file_loop"

\* run() returns: the thread is over.
WorkerReturns == upscale_workers' = upscale_workers - 1

\* PDFUpscaler.run, lines 737-753
upscale_run ==
  /\ upc = "start"
  /\ UNCHANGED fetch_core
  /\ \E found \in BOOLEAN, made \in BOOLEAN :
       IF ~found
       THEN \* _find_realesrgan returned None
            /\ EmitFinished(FALSE, << >>)
            /\ upc' = "done"
            /\ WorkerReturns
            /\ UNCHANGED << folders, file_index, upscaled_files >>
       ELSE IF OutputFolder \notin folders /\ ~made
       THEN \* os.makedirs raises: the outer except clause
            /\ EmitFinished(FALSE, << >>)
            /\ upc' = "done"
            /\ WorkerReturns
            /\ UNCHANGED << folders, file_index, upscaled_files >>
       ELSE /\ folders' = folders \cup {OutputFolder}
            /\ last_event' = IF OutputFolder \in folders
                             THEN Log("realesrgan found", 0)
                             ELSE Log("folder created", 0)
            /\ file_index' = 1
            /\ upscaled_files' = << >>
            /\ upc' = "file_loop"
            /\ UNCHANGED << finished_count, finished_args, thread_vars >>
  /\ UNCHANGED << stop_flag, stop_logs, input_files, upscaled_dir, file_locals >>

\* stop(), called from another thread
stop ==
  /\ upc # "absent" /\ ~stop_flag
  /\ stop_flag' = TRUE
  /\ stop_logs' = stop_logs + 1
  /\ UNCHANGED << fetch_vars, signal_vars, upc, input_files, folders,
                  upscaled_dir, file_index, file_locals, upscaled_files >>

\* int((file_index-1)/total_files*100), line 769
FilePercent(k, n) == ((k - 1) * 100) \div n

\* PDFUpscaler.run, lines 755-792: the head of one turn of the file loop.
upscale_file ==
  /\ upc = "file_loop"
  /\ UNCHANGED fetch_vars
  /\ IF file_index > Len(input_files)
     THEN /\ upc' = "end"
          /\ UNCHANGED << last_event, folders, file_index, file_locals,
                          upscaled_files >>
     ELSE IF stop_flag
     THEN /\ last_event' = Log("stopped by user", 0)
          /\ upc' = "end"
          /\ UNCHANGED << folders, file_index, file_locals, upscaled_files >>
     ELSE IF OutputPath(input_files[file_index]) \in DOMAIN upscaled_dir
     THEN \* skipped: continue
          /\ upscaled_files' =
               Append(upscaled_files, OutputPath(input_files[file_index]))
          /\ last_event' = ProgressLog(FilePercent(file_index, Len(input_files)),
                                       "exists, skipped", file_index)
          /\ file_index' = file_index + 1
          /\ UNCHANGED << upc, folders, file_locals >>
     ELSE \E opened \in BOOLEAN, n \in 0..MaxDocPages, made \in 0..2 :
          IF ~opened \/ made < 2
          THEN \* fitz.open or an os.makedirs raises
               /\ last_event' = ProgressLog(FilePercent(file_index,
                                                        Len(input_files)),
                                            "file error", file_index)
               /\ file_index' = file_index + 1
               /\ upc' = "file_loop"
               /\ folders' = IF opened /\ made = 1
                             THEN folders \cup {TempImgFolder(file_index)}
                             ELSE folders
               /\ UNCHANGED << file_locals, upscaled_files >>
          ELSE /\ total_pages' = n
               /\ folders' = folders \cup {TempImgFolder(file_index),
                                           UpscaledImgFolder(file_index)}
               /\ image_paths' = << >>
               /\ last_event' = ProgressLog(FilePercent(file_index,
                                                        Len(input_files)),
                                            "total pages", n)
               /\ upc' = "extract"
               /\ UNCHANGED << file_index, page, upscaled_image_paths,
                               upscaled_files >>
  /\ UNCHANGED << stop_flag, stop_logs, input_files, upscaled_dir,
                  finished_count, finished_args >>

\* PDFUpscaler.run, lines 794-811: one turn of the extraction loop.
upscale_extract ==
  /\ upc = "extract"
  /\ UNCHANGED fetch_vars
  /\ IF Len(image_paths) < total_pages /\ ~stop_flag
     THEN \E saved \in BOOLEAN :
          IF saved
          THEN /\ image_paths' = Append(image_paths, Len(image_paths) + 1)
               /\ UNCHANGED << upc, last_event, folders, file_index, page,
                               upscaled_image_paths >>
          ELSE \* get_pixmap or pix.save raises
               /\ FileExcept
               /\ UNCHANGED << folders, image_paths, page, upscaled_image_paths >>
     ELSE IF stop_flag
     THEN /\ \E kept \in SUBSET FileFolders : _cleanup_folders(kept)
          /\ upc' = "end"
          /\ UNCHANGED << last_event, file_index, image_paths, page,
                          upscaled_image_paths >>
     ELSE /\ upscaled_image_paths' = << >>
          /\ page' = 0
          /\ upc' = "upscale"
          /\ UNCHANGED << last_event, folders, file_index, image_paths >>
  /\ UNCHANGED << stop_flag, stop_logs, input_files, upscaled_dir, total_pages,
                  upscaled_files, finished_count, finished_args >>

\* PDFUpscaler.run, lines 813-856 and 878-888: the head of one turn of the
\* per-page loop, up to the launch of the subprocess, and what follows the loop.
upscale_page ==
  /\ upc = "upscale"
  /\ UNCHANGED fetch_vars
  /\ IF page < Len(image_paths) /\ ~stop_flag
     THEN \E launched \in BOOLEAN :
          /\ last_event' = IF launched THEN Log("upscaling page", page + 1)
                           ELSE Log("page launch error", page + 1)
          /\ upc' = IF launched THEN "subprocess" ELSE "upscale"
          /\ page' = IF launched THEN page ELSE page + 1
          /\ UNCHANGED << folders, file_index >>
     ELSE IF stop_flag
     THEN /\ \E kept \in SUBSET FileFolders : _cleanup_folders(kept)
          /\ upc' = "end"
          /\ UNCHANGED << last_event, file_index, page >>
     ELSE IF upscaled_image_paths = << >>
     THEN /\ last_event' = Log("no upscaled images", file_index)
          /\ \E kept \in SUBSET FileFolders : _cleanup_folders(kept)
          /\ file_index' = file_index + 1
          /\ upc' = "file_loop"
          /\ UNCHANGED page
     ELSE /\ upc' = "reassemble"
          /\ UNCHANGED << last_event, folders, file_index, page >>
  /\ UNCHANGED << stop_flag, stop_logs, input_files, upscaled_dir, total_pages,
                  image_paths, upscaled_image_paths, upscaled_files,
                  finished_count, finished_args >>

\* A subprocess whose failure ends the processing of the file.
upscale_subprocess_fatal ==
  /\ upc = "subprocess"
  /\ UNCHANGED fetch_vars
  /\ \E returncode \in {0, 1} :
       IF returncode = 0
       THEN /\ upscaled_image_paths' =
                 Append(upscaled_image_paths, image_paths[page + 1])
            /\ page' = page + 1
            /\ upc' = "upscale"
            /\ UNCHANGED << last_event, file_index >>
       ELSE /\ FileExcept
            /\ UNCHANGED << page, upscaled_image_paths >>
  /\ UNCHANGED << stop_flag, stop_logs, input_files, folders, upscaled_dir,
                  total_pages, image_paths, upscaled_files,
                  finished_count, finished_args >>

\* PDFUpscaler.run, lines 858-876: the subprocess output is read, the process
\* is terminated when the flag is seen, and its exit code decides.
upscale_subprocess ==
  /\ upc = "subprocess"
  /\ UNCHANGED fetch_vars
  /\ \E returncode \in {0, 1}, percent_line \in BOOLEAN :
       /\ upscaled_image_paths' =
            IF returncode = 0
            THEN Append(upscaled_image_paths, image_paths[page + 1])
            ELSE upscaled_image_paths
       /\ last_event' =
            IF returncode # 0 THEN Log("page error", page + 1)
            ELSE IF percent_line /\ ~stop_flag THEN Log("page progress", page + 1)
            ELSE last_event
  /\ page' = page + 1
  /\ upc' = "upscale"
  /\ UNCHANGED << stop_flag, stop_logs, input_files, folders, upscaled_dir,
                  file_index, total_pages, image_paths, upscaled_files,
                  finished_count, finished_args >>

\* PDFUpscaler.run, lines 890-900: open() creates the output before convert()
\* can raise; the temporary folders are removed either way.
upscale_reassemble ==
  /\ upc = "reassemble"
  /\ UNCHANGED fetch_vars
  /\ \E converted \in BOOLEAN :
       LET output_pdf == OutputPath(input_files[file_index])
       IN  /\ upscaled_dir' =
                (output_pdf :> (IF converted THEN upscaled_image_paths ELSE << >>))
                @@ upscaled_dir
           /\ upscaled_files' = IF converted THEN Append(upscaled_files, output_pdf)
                                ELSE upscaled_files
           /\ last_event' = IF converted THEN Log("pdf created", file_index)
                            ELSE Log("pdf creation error", file_index)
  /\ \E kept \in SUBSET FileFolders : _cleanup_folders(kept)
  /\ file_index' = file_index + 1
  /\ upc' = "file_loop"
  /\ UNCHANGED << stop_flag, stop_logs, input_files, file_locals,
                  finished_count, finished_args >>

\* The end of run() without the return of line 907: a stopped run emits
\* finished(False, []) and then goes on to finished(True, upscaled_files).
upscale_end_no_return ==
  /\ upc = "end"
  /\ UNCHANGED fetch_vars
  /\ finished_count' = finished_count + (IF stop_flag THEN 2 ELSE 1)
  /\ finished_args' = [ok |-> TRUE, files |-> upscaled_files]
  /\ last_event' =
       [kind |-> "finished", tag |-> "", n |-> 0, percent |-> 100]
  /\ upc' = "done"
  /\ UNCHANGED << stop_flag, stop_logs, input_files, folders, upscaled_dir,
                  file_index, file_locals, upscaled_files >>

\* PDFUpscaler.run, lines 905-916
upscale_end ==
  /\ upc = "end"
  /\ UNCHANGED fetch_core
  /\ WorkerReturns
  /\ IF stop_flag
     THEN EmitFinished(FALSE, << >>)
     ELSE \* progress(100), then the summary and finished
          EmitFinishedAt(TRUE, upscaled_files, 100)
  /\ upc' = "done"
  /\ UNCHANGED << stop_flag, stop_logs, input_files, folders, upscaled_dir,
                  file_index, file_locals, upscaled_files >>

\* MangaDownloaderApp.download_finished, the slot of the worker's finished
\* signal, run by the GUI thread once the queued signal is delivered.
download_finished ==
  /\ pc # "absent" /\ finished_count >= 1 /\ ~download_button
  /\ download_button' = TRUE
  /\ download_cancel_button' = FALSE
  /\ reported' =
       [outcome |-> IF is_cancelled THEN "cancelled"
                    ELSE IF finished_args.ok THEN "success" ELSE "error",
        files |-> finished_args.files]
  /\ \E reply \in BOOLEAN :
       \* offer_upscale asks only after a success in PDF format with files;
       \* on Yes start_upscale creates a PDFUpscaler and starts it
       upscale_workers' =
         IF ~is_cancelled /\ finished_args.ok /\ format_combo = "pdf"
            /\ finished_args.files # << >> /\ reply
         THEN upscale_workers + 1
         ELSE upscale_workers
  /\ UNCHANGED << text_vars, watch_hist, app_inputs, cancelled_after_assembly,
                  upscale_state, signal_vars, pc, output_format, download_all,
                  is_cancelled, browser, cookie_file, cookies, url,
                  processed_url, chapters, news_id, manga_title_safe, i, dirs,
                  downloads, temp, outputs, zips, names, index, image_files,
                  part, part_files, created_files, fetch_log >>

vars == << fetch_vars, signal_vars, upscale_vars >>

Init == InitFetch \/ InitUpscale

Next ==
  \/ run
  \/ cancel
  \/ _get_webdriver_with_autodownload
  \/ driver_get
  \/ restore_session
  \/ wait_login
  \/ _auto_download_if_manga_page
  \/ _download_all_manga
  \/ _download_all_manga_found
  \/ _load_cookies
  \/ _get_manga_data
  \/ _download_chapters
  \/ _download_chapter
  \/ request_delay
  \/ download_manga
  \/ _create_cbz_archive
  \/ _create_cbz_archive_page
  \/ _create_cbz_archive_end
  \/ download_manga_cbz_done
  \/ _create_auto_split_pdf
  \/ _create_auto_split_pdf_page
  \/ _create_auto_split_pdf_single
  \/ _create_auto_split_pdf_part
  \/ download_manga_cleanup
  \/ download_finished
  \/ upscale_run
  \/ stop
  \/ upscale_file
  \/ upscale_extract
  \/ upscale_page
  \/ upscale_subprocess
  \/ upscale_reassemble
  \/ upscale_end

Spec == Init /\ [][Next]_vars

\* ------------------------------------------------- the title sanitizer
\* The characters a title is made of here: allowed ones (a letter, a digit,
\* "_", "-", " ") and others (":", ".").
TitleChars == { "a", "1", "_", "-", " ", ":", "." }

RECURSIVE Texts(_)
\* Every text of exactly n characters.
Texts(n) ==
  IF n = 0 THEN { << >> }
  ELSE { << c >> \o t : c \in TitleChars, t \in Texts(n - 1) }

Titles == UNION { Texts(n) : n \in 0..MaxTitleLen }

\* No worker object exists.
FreshState ==
  /\ output_format = "cbz" /\ download_all = FALSE /\ is_cancelled = FALSE
  /\ browser = "none" /\ cookie_file = "absent" /\ cookies = "none"
  /\ url = << >> /\ processed_url = << >> /\ chapters = << >>
  /\ news_id = "none" /\ manga_title_safe = << >> /\ i = 0 /\ dirs = {}
  /\ downloads = EmptyFn /\ temp = EmptyFn /\ outputs = EmptyFn
  /\ zips = << >> /\ names = << >> /\ index = 0 /\ image_files = << >>
  /\ part = 0 /\ part_files = << >> /\ created_files = << >>
  /\ fetch_log = << >> /\ last_event = NoEvent /\ finished_count = 0
  /\ finished_args = [ok |-> FALSE, files |-> << >>]
  /\ stop_flag = FALSE /\ stop_logs = 0 /\ input_files = << >>
  /\ folders = {} /\ upscaled_dir = EmptyFn /\ file_index = 0
  /\ total_pages = 0 /\ image_paths = << >> /\ page = 0
  /\ upscaled_image_paths = << >> /\ upscaled_files = << >>

NoWorker ==
  /\ pc = "absent" /\ upc = "absent"
  /\ observed = << >> /\ injections = 0 /\ upscale_workers = 0
  /\ FreshState

worker_vars ==
  << pc, output_format, download_all, is_cancelled, browser, cookie_file,
     cookies, url, processed_url, chapters, news_id, manga_title_safe, i,
     dirs, downloads, temp, outputs, zips, names, index, image_files,
     part, part_files, created_files, fetch_log, signal_vars, upc, stop_flag,
     stop_logs, input_files, folders, upscaled_dir, file_index, total_pages,
     image_paths, page, upscaled_image_paths, upscaled_files >>

\* The window as its constructor leaves it, with the settings it loaded.
NoRun ==
  /\ download_button = TRUE
  /\ download_cancel_button = FALSE
  /\ format_combo \in {"cbz", "pdf"}
  /\ mode_combo \in BOOLEAN
  /\ url_input \in {"", "set"}
  /\ reported = NoReport
  /\ started = 0
  /\ cancelled_after_assembly = FALSE

InitSanitize ==
  /\ NoWorker
  /\ NoRun
  /\ manga_title \in Titles
  /\ sanitized = << >>
  /\ calls = 0

\* re.sub(r"[^\w\- ]", "_", ...) applied to the title, then to its own result.
_prepare_directories ==
  /\ calls < MaxCalls
  /\ sanitized' = Sanitize(IF calls = 0 THEN manga_title ELSE sanitized)
  /\ calls' = calls + 1
  /\ UNCHANGED << manga_title, watch_hist, thread_vars, worker_vars,
                  app_vars >>

NextSanitize == _prepare_directories

SpecSanitize == InitSanitize /\ [][NextSanitize]_vars

\* ------------------------------------------------- MangaDownloaderApp
\* The window with its buttons, and the fetch worker seen from outside: a
\* run is started, can be cancelled, and returns with or without a finished
\* signal, which the slot download_finished handles.
InitApp ==
  /\ NoWorker
  /\ NoRun
  /\ manga_title = << >> /\ sanitized = << >> /\ calls = 0

\* The variables start_download leaves alone when it starts a worker.
start_frame ==
  << text_vars, watch_hist, thread_vars, format_combo, mode_combo,
     url_input, reported,
     upscale_state,
     browser, cookie_file, cookies, url, processed_url, chapters, news_id,
     manga_title_safe, i, dirs, downloads, temp, outputs, zips, names, index,
     image_files, part, part_files, fetch_log >>

\* A start_download that leaves the button as it is.
start_download_button_left ==
  /\ download_button /\ started < MaxRuns
  /\ IF url_input = ""
     THEN UNCHANGED vars
     ELSE /\ download_cancel_button' = TRUE
          /\ pc' = "start"
          /\ output_format' = format_combo
          /\ download_all' = mode_combo
          /\ is_cancelled' = FALSE
          /\ created_files' = << >>
          /\ last_event' = NoEvent
          /\ finished_count' = 0
          /\ finished_args' = [ok |-> FALSE, files |-> << >>]
          /\ started' = started + 1
          /\ cancelled_after_assembly' = FALSE
          /\ UNCHANGED << start_frame, download_button >>

\* start_download, the slot of download_button.clicked: Qt delivers the click
\* only while the button is enabled.  An empty URL is logged and nothing is
\* started; otherwise the button is disabled, the cancel button shown and a
\* new worker created from the form and started.
start_download ==
  /\ download_button /\ started < MaxRuns
  /\ IF url_input = ""
     THEN UNCHANGED vars
     ELSE /\ download_button' = FALSE
          /\ download_cancel_button' = TRUE
          /\ pc' = "start"
          /\ output_format' = format_combo
          /\ download_all' = mode_combo
          /\ is_cancelled' = FALSE
          /\ created_files' = << >>
          /\ last_event' = NoEvent
          /\ finished_count' = 0
          /\ finished_args' = [ok |-> FALSE, files |-> << >>]
          /\ started' = started + 1
          /\ cancelled_after_assembly' = FALSE
          /\ UNCHANGED start_frame

\* What a whole run of the worker ends with: no signal at all, or finished
\* with a flag and self.created_files.
RunOutcomes ==
  { [emitted |-> FALSE, ok |-> FALSE, files |-> << >>],
    [emitted |-> TRUE, ok |-> FALSE, files |-> << >>],
    [emitted |-> TRUE, ok |-> TRUE, files |-> << >>],
    [emitted |-> TRUE, ok |-> TRUE, files |-> << PdfName(<< "t" >>) >>] }

\* MangaDownloader.run from its first line to its return, in one step.
run_returns ==
  /\ pc = "start"
  /\ \E o \in RunOutcomes :
       /\ o.files # << >> => output_format = "pdf"
       /\ created_files' = o.files
       /\ IF o.emitted THEN EmitFinished(o.ok, o.files)
          ELSE /\ last_event' = Log("run ended", 0)
               /\ UNCHANGED << finished_count, finished_args >>
  /\ pc' = "done"
  /\ UNCHANGED << start_frame, started, download_button,
                  download_cancel_button, cancelled_after_assembly,
                  output_format, download_all, is_cancelled >>

\* cancel_download, the slot of download_cancel_button.clicked
cancel_download ==
  /\ download_cancel_button
  /\ cancel

\* PDFUpscaler.run of one of the started workers, from its first line to
\* its return, in one step.
upscale_returns ==
  /\ upscale_workers > 0
  /\ WorkerReturns
  /\ UNCHANGED << fetch_core, signal_vars, upscale_state >>

NextApp ==
  \/ start_download
  \/ run_returns
  \/ cancel_download
  \/ download_finished
  \/ upscale_returns

SpecApp == InitApp /\ [][NextApp]_vars

\* ====================================================================
\* The trigger location, over every short path
\* ====================================================================

\* How many segments a location has at most.
MaxUrlLen == 4

UrlSegments == {"download", "12-manga.html", "manga.html", "read", "home"}

RECURSIVE Paths(_)
Paths(n) ==
  IF n = 0 THEN { << >> }
  ELSE LET shorter == Paths(n - 1)
       IN shorter \cup { Append(u, seg) : u \in shorter, seg \in UrlSegments }

\* Every location of at most MaxUrlLen segments.
Locations == Paths(MaxUrlLen)

\* The watcher is polling, nothing was observed yet.
InitUrl ==
  /\ pc = "watch_poll" /\ upc = "absent"
  /\ observed = << >> /\ injections = 0 /\ upscale_workers = 0
  /\ FreshState
  /\ NoRun
  /\ manga_title = << >> /\ sanitized = << >> /\ calls = 0

\* _auto_download_if_manga_page, lines 385-389: a turn that reads a location
\* carrying the trigger suffix.
watch_download ==
  /\ pc = "watch_poll" /\ ~is_cancelled
  /\ \E current_url \in Locations :
       /\ EndsWithDownload(current_url)
       /\ StartDownload(current_url)
  /\ UNCHANGED << text_vars, app_vars, upscale_state, thread_vars, injections,
                  output_format, download_all, is_cancelled, cookie_file,
                  cookies, processed_url, chapters, news_id, manga_title_safe,
                  i, dirs, downloads, temp, outputs, zips, names, index,
                  image_files, part, part_files, created_files, fetch_log,
                  finished_count, finished_args >>

NextUrl == watch_download

SpecUrl == InitUrl /\ [][NextUrl]_vars

\* ====================================================================
\* Properties
\* ====================================================================

\* The names a sanitized title can take: " My:b " and the default "Manga".
SafeTitles == { << "M", "y", "_", "b" >>, << "M", "a", "n", "g", "a" >> }

PdfSuffix == << ".", "p", "d", "f" >>

\* "_part_00k.pdf", for k below 10
PartSuffix(k) ==
  << "_", "p", "a", "r", "t", "_", "0", "0", DigitChar(k) >> \o PdfSuffix

\* The order the assembled pages must follow: chapter sequence index first,
\* then the lexical order of the page names.
PageBefore(p, q) ==
  p.ch < q.ch \/ (p.ch = q.ch /\ NameLess(p.name, q.name))

\* The pages of the bundles in downloads/.
FetchedPages ==
  UNION { { [ch |-> downloads[z].ch, name |-> n] :
              n \in Range(downloads[z].names) } : z \in DOMAIN downloads }

FetchedImages == { p \in FetchedPages : IsImage(p.name) }

\* A chapter's content was saved although it is no archive.
BadBundle ==
  \E k \in 1..Len(fetch_log) : fetch_log[k].saved /\ ~fetch_log[k].zip

RECURSIVE Flatten(_)
\* The pages of the listed documents, one document after the other.
Flatten(files) ==
  IF files = << >> THEN << >>
  ELSE outputs[Head(files)] \o Flatten(Tail(files))

\* The least number of parts of at most PAGES_PER_PDF pages that hold n pages.
PartsNeeded(n) == CHOOSE q \in 0..n : q * PAGES_PER_PDF >= n /\ (q - 1) * PAGES_PER_PDF < n

\* The document assembler has returned to download_manga in a run that was
\* never cancelled.
DocumentAssembled ==
  pc = "cleanup" /\ output_format = "pdf" /\ ~is_cancelled

\* --------------------------------------------------------------- C1
\* C1 (as stated): every fetch run that has ended has emitted a finished
\* notification; the worker never ends a run silently.
C1_EndedRunHasFinished == pc = "done" => finished_count >= 1

C3_CancelledRunReportsFalse ==
  [][ (/\ finished_count' > finished_count
       /\ is_cancelled
       /\ pc \notin {"absent", "load_cookies", "get_manga_data"}) =>
        finished_args' = [ok |-> FALSE, files |-> << >>] ]_vars

\* --------------------------------------------------------------- C4
\* C4 (as stated): a run that ends while loading the session cookies or
\* resolving the catalog (no cookies, no data block, no run identifier) ends
\* with finished(false, []), with no chapter fetched and no artifact.
C4_CatalogFailureIsFatal ==
  [][ (pc \in {"load_cookies", "get_manga_data"} /\ pc' = "done") =>
        /\ finished_count' = finished_count + 1
        /\ finished_args' = [ok |-> FALSE, files |-> << >>]
        /\ fetch_log' = << >>
        /\ outputs' = EmptyFn ]_vars

\* --------------------------------------------------------------- C5
\* C5: a chapter whose fetch fails is logged and skipped without ending the
\* run; every chapter of the list is requested once, in order, whatever
\* failed before it; and a run that was not cancelled and whose saved bundles
\* are archives assembles what it fetched and reports finished(true, ...).
C5_FailedChapterIsSkipped ==
  /\ \A k \in 1..Len(fetch_log) : fetch_log[k].ch = k
  /\ (pc = "delay" /\ ~fetch_log[Len(fetch_log)].saved) =>
       /\ last_event = Log("chapter error", i)
       /\ finished_count = 0
       /\ Len(fetch_log) = i
  /\ (pc = "assemble" /\ ~is_cancelled) => Len(fetch_log) = Len(chapters)
  /\ (pc = "done" /\ fetch_log # << >> /\ ~is_cancelled /\ ~BadBundle) =>
       /\ finished_count = 1
       /\ finished_args.ok
       /\ Len(fetch_log) = Len(chapters)
       /\ (output_format = "cbz" => outputs # EmptyFn)
       /\ (output_format = "pdf" /\ created_files # << >> => outputs # EmptyFn)

\* The first chapter failed, the second was fetched, the artifact was
\* assembled and the run reported success.
C5_Witness ==
  /\ pc = "done" /\ ~is_cancelled
  /\ Len(fetch_log) = 2
  /\ ~fetch_log[1].saved /\ fetch_log[2].saved
  /\ finished_args.ok
  /\ outputs # EmptyFn

\* --------------------------------------------------------------- C6
\* C6: in bundle mode the k-th entry written into the archive is named by
\* the index k, the entries follow the order (chapter sequence index, lexical
\* page name), and a run that was not cancelled has written every page of
\* every fetched bundle exactly once, so the indexes are exactly
\* 1..totalPages, whatever order the bundles list their entries in.
C6_BundleIndexAndOrder ==
  (pc = "cbz_done" /\ CbzName(manga_title_safe) \in DOMAIN outputs) =>
    LET arc == outputs[CbzName(manga_title_safe)]
    IN  /\ \A k \in 1..Len(arc) :
             arc[k].arcname =
               [w |-> 6, stem |-> k, ext |-> Lower(arc[k].data.name.ext)]
        /\ \A k \in 1..(Len(arc) - 1) : PageBefore(arc[k].data, arc[k + 1].data)
        /\ ~is_cancelled =>
             /\ { arc[k].data : k \in 1..Len(arc) } = FetchedPages
             /\ Len(arc) = Cardinality(FetchedPages)

\* Two chapters of MaxSmallPages entries each, both listed out of order, were
\* assembled.
C6_Witness ==
  /\ pc = "cbz_done" /\ ~is_cancelled
  /\ Cardinality(DOMAIN downloads) = 2
  /\ CbzName(manga_title_safe) \in DOMAIN outputs
  /\ Len(outputs[CbzName(manga_title_safe)]) = 2 * MaxSmallPages

\* --------------------------------------------------------------- C7
\* C7 (as stated): in document mode, when every conversion succeeded, the
\* pages of the output, taken part after part, are the image pages of the
\* fetched bundles in the order (chapter sequence index, lexical page name),
\* each exactly once, also when chapters reuse page names.
C7_DocumentPagesInOrder ==
  (DocumentAssembled /\ \A f \in DOMAIN outputs : outputs[f] # << >>) =>
    LET doc == Flatten(created_files)
    IN  /\ \A k \in 1..(Len(doc) - 1) : PageBefore(doc[k], doc[k + 1])
        /\ { doc[k] : k \in 1..Len(doc) } = FetchedImages

C9_SplitDocument ==
  (/\ DocumentAssembled
   /\ Len(image_files) > PAGES_PER_PDF
   /\ \A f \in DOMAIN outputs : outputs[f] # << >>) =>
    LET N == Len(image_files)
        parts == PartsNeeded(N)
        name(k) == manga_title_safe \o PartSuffix(k)
        first(k) == (k - 1) * PAGES_PER_PDF + 1
        last(k) == IF k * PAGES_PER_PDF < N THEN k * PAGES_PER_PDF ELSE N
    IN  /\ manga_title_safe \in SafeTitles
        /\ DOMAIN outputs = { name(k) : k \in 1..parts }
        /\ Cardinality(DOMAIN outputs) = parts
        /\ \A k \in 1..parts :
             /\ Len(outputs[name(k)]) = last(k) - first(k) + 1
             /\ Len(outputs[name(k)]) <= PAGES_PER_PDF
             /\ \A j \in 1..Len(outputs[name(k)]) :
                  outputs[name(k)][j] = temp[image_files[first(k) + j - 1]]
        /\ Len(Flatten(created_files)) = N
        /\ created_files = [k \in 1..parts |-> name(k)]
        /\ part_files = created_files

\* A work of more than 2 * PAGES_PER_PDF pages was written as three parts.
C9_Witness ==
  /\ DocumentAssembled
  /\ Len(image_files) > 2 * PAGES_PER_PDF
  /\ Len(created_files) = 3

\* --------------------------------------------------------------- C10
\* C10: the resolver turns the newest-first chapter list of the block into
\* oldest-first order; the 1-based position in that list is the sequence
\* index: the request of turn k asks for the k-th oldest chapter, the bundle
\* of chapter k is saved under the prefix 00000k_, and the bundles are
\* assembled in ascending sequence index, whatever the titles and remote
\* identifiers are.
C10_SequenceIndex ==
  /\ chapters = WorkChapters(Len(chapters))
  /\ \A k \in 1..Len(fetch_log) :
       fetch_log[k].ch = k /\ fetch_log[k].id = WorkChapter(k).id
  /\ \A z \in DOMAIN downloads :
       /\ downloads[z].ch \in 1..Len(chapters)
       /\ z = << "0", "0", "0", "0", "0", DigitChar(downloads[z].ch), "_" >>
              \o Sanitize(WorkChapter(downloads[z].ch).title)
              \o << ".", "z", "i", "p" >>
  /\ pc \in {"cbz_zip", "cbz_name", "pdf_zip", "pdf_name"} =>
       /\ \A k \in 1..(Len(zips) - 1) :
            downloads[zips[k]].ch < downloads[zips[k + 1]].ch
       /\ zips # << >> =>
            \A z \in DOMAIN downloads :
              z \in Range(zips) \/ downloads[z].ch < downloads[Head(zips)].ch

\* Two chapters were fetched and their bundles enumerated for assembly.
C10_Witness ==
  /\ pc \in {"cbz_zip", "pdf_zip"}
  /\ Len(chapters) = 2
  /\ Len(zips) = 2

\* --------------------------------------------------------------- C11
\* C11: chapters are fetched one at a time in ascending sequence index: the
\* fetch of chapter j starts only when the fetches of chapters 1..j-1 have
\* all ended (saved or failed) and none is in progress, and the fetch that
\* ends is the one of the chapter that was started last.
C11_OneChapterAtATime ==
  [][ /\ (pc' = "fetching" /\ pc # "fetching") =>
           /\ i' = Len(fetch_log) + 1
           /\ fetch_log' = fetch_log
      /\ (pc = "fetching" /\ pc' = "fetching") =>
           i' = i /\ fetch_log' = fetch_log
      /\ fetch_log' # fetch_log =>
           /\ pc = "fetching" /\ pc' # "fetching"
           /\ Len(fetch_log') = Len(fetch_log) + 1
           /\ SubSeq(fetch_log', 1, Len(fetch_log)) = fetch_log
           /\ fetch_log'[Len(fetch_log')].ch = i
           /\ i = Len(fetch_log) + 1 ]_vars

\* The fetch of chapter 2 is in progress after the fetch of chapter 1 ended
\* without a bundle.
C11_Witness ==
  /\ pc = "fetching"
  /\ i = 2
  /\ Len(fetch_log) = 1
  /\ ~fetch_log[1].saved

\* The chapter loop was left through its cancellation branch: a turn for
\* chapter i found _is_cancelled set (a normal end leaves i past the list).
CancelledAtBoundary ==
  /\ pc \in {"assemble", "cleanup", "done", "cbz_zip", "cbz_name", "cbz_end",
             "cbz_done", "pdf_zip", "pdf_name", "pdf_check", "pdf_part"}
  /\ i \in 1..Len(chapters)

\* --------------------------------------------------------------- C12
\* C12: when the chapter loop observes the cancellation at a chapter
\* boundary, the assembly step is never entered: the run goes straight to
\* its end, and it writes no bundle-mode archive and no document.
C12_BoundaryCancelSkipsAssembly ==
  CancelledAtBoundary =>
    /\ is_cancelled
    /\ pc \in {"assemble", "cleanup", "done"}
    /\ outputs = EmptyFn
    /\ created_files = << >>
    /\ pc = "done" => finished_args.files = << >>

\* The run was cancelled after chapter 1 of 2 was fetched and has ended.
C12_Witness ==
  /\ pc = "done"
  /\ CancelledAtBoundary
  /\ Len(chapters) = 2
  /\ Len(fetch_log) = 1 /\ fetch_log[1].saved
  /\ finished_count = 1

\* --------------------------------------------------------------- C13
\* C13 (as stated): when the chapter loop observes the cancellation at a
\* chapter boundary, the bundles fetched before it are still in the download
\* staging directory when the run has ended.
C13_FetchedBundlesRemain ==
  (pc = "done" /\ CancelledAtBoundary) =>
    \A k \in 1..Len(fetch_log) :
      fetch_log[k].saved => ZipName(k, chapters[k].title) \in DOMAIN downloads

\* The archive of the run holds every page of every bundle in downloads/,
\* each once.
ArchiveComplete ==
  LET arc == outputs[CbzName(manga_title_safe)]
  IN  /\ { arc[k].data : k \in 1..Len(arc) } = FetchedPages
      /\ Len(arc) = Cardinality(FetchedPages)

C15_CancelledPartsDeleted ==
  (/\ pc = "done"
   /\ output_format = "pdf"
   /\ is_cancelled
   /\ Len(image_files) > PAGES_PER_PDF
   /\ part \in 1..(NumFiles(Len(image_files)) - 1)
   /\ Len(part_files) = part) =>
    /\ outputs = EmptyFn
    /\ finished_args.files = << >>

\* --------------------------------------------------------------- C16
\* C16: title sanitization is idempotent: applying the sanitizer to a text
\* it has already returned gives that same text, for every title.
C16_SanitizeIdempotent ==
  [][ calls >= 1 => sanitized' = sanitized ]_vars

\* A title with two characters outside the allowed set went through the
\* sanitizer twice.
C16_Witness ==
  /\ calls = 2
  /\ manga_title = << ":", "a", "." >>
  /\ sanitized = << "_", "a", "_" >>

\* Every input of the upscale run has an output of the same base name that
\* an earlier run left in the destination folder.
AllOutputsPreExist ==
  /\ input_files # << >>
  /\ \A k \in 1..Len(input_files) :
       /\ OutputPath(input_files[k]) \in DOMAIN upscaled_dir
       /\ upscaled_dir[OutputPath(input_files[k])] = EarlierOutput

\* --------------------------------------------------------------- C17
\* C17 (as stated): an upscale run over inputs whose outputs all exist
\* already, and that nobody stops, launches no enhancement and ends with
\* finished(true, L), L being the pre-existing outputs in input order,
\* whether or not the enhancement executable is present.
C17_RerunReportsExistingOutputs ==
  (upc = "done" /\ ~stop_flag /\ AllOutputsPreExist) =>
    /\ page = 0
    /\ upscaled_image_paths = << >>
    /\ finished_args =
         [ok |-> TRUE,
          files |-> [k \in 1..Len(input_files) |-> OutputPath(input_files[k])]]

\* --------------------------------------------------------------- C19
\* C19 (as stated): when cancel() is called after every artifact of the run
\* was assembled in full, the run is still reported to the operator as
\* successful, with those artifacts, and they are still on disk, wherever
\* the call lands between the end of the assembly, the worker's finished
\* signal and the slot that handles it.
C19_LateCancelKeepsSuccess ==
  (reported.outcome # "none" /\ cancelled_after_assembly) =>
    /\ reported.outcome = "success"
    /\ reported.files = created_files
    /\ \A k \in 1..Len(created_files) : created_files[k] \in DOMAIN outputs
    /\ output_format = "cbz" => CbzName(manga_title_safe) \in DOMAIN outputs

\* --------------------------------------------------------------- C18
\* C18: a fetch worker is started only while no fetch run is active: from
\* the start of a run until the slot of its finished signal has run, the
\* start button is disabled, so no start request reaches start_download and
\* at most one fetch worker runs at any moment.
C18_OneFetchRunAtATime ==
  [][ /\ started' > started =>
           /\ pc \in {"absent", "done"}
           /\ pc = "done" => finished_count >= 1
           /\ download_button /\ ~download_button'
           /\ pc' = "start"
      /\ pc' = "start" => ~download_button'
      /\ (pc' = "done" /\ finished_count' = 0) => ~download_button' ]_vars

\* A second run is active, started after the first one was reported.
C18_Witness ==
  /\ started = 2
  /\ pc = "start"
  /\ reported.outcome # "none"
  /\ ~download_button

\* --------------------------------------------------------------- C20
\* C20: in multi-part document mode a part whose conversion fails is logged
\* and left out of the result list, and the loop goes on: every part is
\* attempted, each part that converted holds its own slice of the page list,
\* and the result list is exactly the converted parts in ascending order.
C20_FailedPartIsOmitted ==
  (/\ output_format = "pdf"
   /\ pc \in {"pdf_part", "cleanup"}
   /\ Len(image_files) > PAGES_PER_PDF) =>
    LET name(k) == PartName(manga_title_safe, k)
        attempted == [k \in 1..part |-> name(k)]
    IN  /\ DOMAIN outputs = { name(k) : k \in 1..part }
        /\ \A k \in 1..part :
             outputs[name(k)] \in
               { << >>, Convert(PartImages(image_files, k - 1)) }
        /\ part_files = SelectSeq(attempted, LAMBDA n : outputs[n] # << >>)
        /\ created_files = part_files
        /\ (pc = "pdf_part" /\ part >= 1 /\ outputs[name(part)] = << >>) =>
             last_event = Log("pdf error", part)
        /\ (pc = "cleanup" /\ ~is_cancelled) =>
             part = NumFiles(Len(image_files))

\* Three parts were attempted, the second failed to convert, and the result
\* list holds parts 1 and 3.
C20_Witness ==
  /\ output_format = "pdf" /\ pc = "cleanup" /\ ~is_cancelled
  /\ part = 3
  /\ part_files = << PartName(manga_title_safe, 1), PartName(manga_title_safe, 3) >>
  /\ outputs[PartName(manga_title_safe, 2)] = << >>


\* ---------------------------------------------------------------------------
\* C21: once the home page has loaded, a run whose persisted cookie file is
\* corrupt goes on to the manual login wait and emits no finished signal at
\* that step.
C21_CorruptCookieFileAsksForLogin ==
  [][ (pc = "restore_session" /\ cookie_file = "corrupt" /\ pc' # pc) =>
        (pc' = "wait_login" /\ finished_count' = finished_count) ]_vars


\* ---------------------------------------------------------------------------
\* C22: when a turn of the fetch loop begins with the cancellation flag set,
\* no request is issued for that chapter or for any later one: the list of
\* issued requests never grows again, the requests made so far are those of
\* the chapters before it, and the worker is never again inside a fetch.
C22_NoFetchAfterCancel ==
  \A n \in 0..MaxChapters :
    []((pc = "chapter_loop" /\ is_cancelled /\ i <= Len(chapters)
        /\ Len(fetch_log) = n) =>
         /\ n = i - 1
         /\ [](Len(fetch_log) = n /\ pc # "fetching"))

\* The loop was left at the head of the turn for chapter 2 of 2: one request
\* was made, none for chapter 2.
C22_Witness ==
  /\ pc = "assemble" /\ is_cancelled
  /\ Len(chapters) = 2 /\ i = 2
  /\ Len(fetch_log) = 1 /\ fetch_log[1].ch = 1


\* ---------------------------------------------------------------------------
\* C23: every fetch attempt, saved or failed, is followed by the delay, and
\* the delay by the head of the next turn: a fetch is left only into the
\* delay, the delay only into the loop head of the next chapter, a fetch is
\* entered only from the loop head, and the loop head only from the delay
\* (or, for the first chapter, from the preparation of the directories).
C23_OneDelayAfterEveryAttempt ==
  [][ /\ (pc = "fetching" /\ pc' # pc) =>
           (pc' = "delay" /\ Len(fetch_log') = i /\ i' = i)
      /\ (pc = "delay" /\ pc' # pc) =>
           (pc' = "chapter_loop" /\ i' = i + 1 /\ fetch_log' = fetch_log)
      /\ (pc' = "fetching" /\ pc # pc') =>
           (pc = "chapter_loop" /\ Len(fetch_log) = i - 1)
      /\ (pc' = "chapter_loop" /\ pc # pc') =>
           (pc = "delay" \/ (i' = 1 /\ fetch_log' = << >>)) ]_vars

\* A failed attempt and then a saved one, each followed by the delay.
C23_Witness ==
  /\ pc = "delay" /\ i = 2
  /\ Len(fetch_log) = 2
  /\ ~fetch_log[1].saved /\ fetch_log[2].saved


\* ---------------------------------------------------------------------------
\* C24: in watch mode the button is replaced only at a detail page other than
\* the one recorded as processed, the record is changed only by a replacement
\* that succeeded and then names the location just read; so while the
\* location read stays the processed one, no further replacement is made,
\* and a replacement that failed records nothing.
C24_InjectOncePerLocation ==
  [][ /\ injections' # injections =>
           /\ pc = "watch_poll"
           /\ injections' = injections + 1
           /\ HasHtml(observed') /\ observed' # processed_url
           /\ processed_url' = observed'
           /\ last_event' = Log("button replaced", 0)
      /\ processed_url' # processed_url => injections' = injections + 1
      /\ (pc = "watch_poll" /\ last_event' = Log("button not found", 0)) =>
           (processed_url' = processed_url /\ injections' = injections)
      /\ (pc = "watch_poll" /\ processed_url # << >>
          /\ observed' = processed_url) =>
           injections' = injections ]_vars

\* The button was replaced once, at the location the latest turn read: a
\* further turn that reads it again changes nothing.
C24_Witness ==
  /\ pc = "watch_poll" /\ injections = 1
  /\ processed_url # << >> /\ observed = processed_url
  /\ last_event = Log("button replaced", 0)


\* ---------------------------------------------------------------------------
\* C25: the catalog URL handed to the pipeline is the observed location with
\* exactly its trailing trigger suffix removed: putting the suffix back gives
\* the location that was read, whatever else the location contains.
C25_OnlyTrailingSuffixRemoved ==
  (pc = "load_cookies" /\ EndsWithDownload(observed)) =>
    url \o << "download" >> = observed


\* ---------------------------------------------------------------------------
\* C26: a worker that ends out of a waiting loop (the login wait, the watch
\* loop, the wait for a page in fetch-everything mode) because cancellation
\* was requested has quit the browser by the time it ends.
C26_CancelledWatcherQuitsBrowser ==
  [][ (pc \in {"wait_login", "watch_poll", "all_poll", "all_found"}
       /\ is_cancelled /\ pc' = "done") =>
        browser' = "quit" ]_vars


\* ---------------------------------------------------------------------------
\* C27: a polling turn of a run that is not cancelled never ends the run and
\* never emits finished: an error while the location is read is logged and
\* the loop goes on.
C27_PollingErrorIsNotFatal ==
  [][ (pc \in {"watch_poll", "all_poll"} /\ ~is_cancelled) =>
        (pc' # "done" /\ finished_count' = finished_count) ]_vars


\* ---------------------------------------------------------------------------
\* C28: a run whose catalog block lacks the title field (the only way the
\* title becomes the default "Manga") fetches no chapter and, when it has
\* ended, has emitted finished(False, []).
C28_MissingTitleIsFatal ==
  manga_title_safe = << "M", "a", "n", "g", "a" >> =>
    /\ fetch_log = << >>
    /\ pc = "done" => finished_args = [ok |-> FALSE, files |-> << >>]


\* ---------------------------------------------------------------------------
\* C29: a bundle-mode run that has ended with finished(False, []) has left no
\* archive on disk: an assembly that aborted with an error took its
\* partially written archive away.
C29_FailedRunLeavesNoArchive ==
  (pc = "done" /\ output_format = "cbz" /\ finished_count = 1
   /\ finished_args = [ok |-> FALSE, files |-> << >>]) =>
    outputs = EmptyFn


\* ---------------------------------------------------------------------------
\* C30: when a fetch run has ended, neither downloads/ nor combined_temp/
\* exists any more; stated for the outcome the claim names last, a run ended
\* by an error (finished(False, [])), where no removal was refused by the
\* file system.
C30_EndedRunLeavesNoDirectories ==
  (pc = "done" /\ finished_count = 1
   /\ finished_args = [ok |-> FALSE, files |-> << >>]) =>
    dirs = {}


\* ---------------------------------------------------------------------------
\* C31: once the processing of an input file has ended, its two temporary
\* folders no longer exist; stated for a file whose processing ended by an
\* error raised during page extraction, where no removal was refused by the
\* file system.
C31_FailedFileLeavesNoFolders ==
  [][ (upc = "extract" /\ upc' = "file_loop"
       /\ last_event' = Log("file error", file_index)) =>
        FileFolders \cap folders' = {} ]_vars


\* The enhanced pages so far are pages of the file, in ascending order, each
\* among the pages the per-page loop has gone through.
EnhancedAreProcessedPages ==
  /\ \A k \in 1..Len(upscaled_image_paths) :
       upscaled_image_paths[k] \in 1..page
  /\ \A k \in 1..Len(upscaled_image_paths) - 1 :
       upscaled_image_paths[k] < upscaled_image_paths[k + 1]

\* ---------------------------------------------------------------------------
\* C32: a failed per-page invocation (exit code not 0, or a launch error)
\* drops that page only: the loop goes on to the next page, the pages
\* enhanced before stay, and the reassembly is reached with every page gone
\* through.  A file with no enhanced page writes no output and adds nothing
\* to the list, and the loop goes on to the next file.  A run that went into
\* the file loop and was not stopped ends with
\* finished(True, upscaled_files).
C32_PageFailureIsRecoverable ==
  /\ [](upc \in {"upscale", "subprocess", "reassemble"} =>
          EnhancedAreProcessedPages)
  /\ [](upc = "reassemble" =>
          (page = Len(image_paths) /\ upscaled_image_paths # << >>))
  /\ []((upc = "done" /\ ~stop_flag /\ file_index >= 1) =>
          (finished_count = 1
           /\ finished_args = [ok |-> TRUE, files |-> upscaled_files]))
  /\ [][ /\ (upc = "subprocess" /\ upc' # upc) =>
              /\ upc' = "upscale" /\ page' = page + 1
              /\ file_index' = file_index
              /\ \/ upscaled_image_paths' = upscaled_image_paths
                 \/ upscaled_image_paths' =
                      Append(upscaled_image_paths, page + 1)
         /\ last_event' = Log("page error", page + 1) =>
              upscaled_image_paths' = upscaled_image_paths
         /\ (upc = "upscale"
             /\ last_event' = Log("page launch error", page + 1)) =>
              /\ upc' = "upscale" /\ page' = page + 1
              /\ upscaled_image_paths' = upscaled_image_paths
              /\ file_index' = file_index
         /\ (upc = "upscale"
             /\ last_event' = Log("no upscaled images", file_index)) =>
              /\ upscaled_image_paths = << >> /\ page = Len(image_paths)
              /\ upc' = "file_loop" /\ file_index' = file_index + 1
              /\ upscaled_dir' = upscaled_dir
              /\ upscaled_files' = upscaled_files
              /\ finished_count' = finished_count ]_vars

\* Both pages of the first of two files failed; the loop is at the second
\* file, nothing was written.
C32_Witness ==
  /\ upc = "file_loop" /\ file_index = 2 /\ Len(input_files) = 2
  /\ total_pages = 2 /\ page = 2 /\ upscaled_image_paths = << >>
  /\ last_event = Log("no upscaled images", 1)
  /\ upscaled_files = << >> /\ ~stop_flag


\* ---------------------------------------------------------------------------
\* C33: once stop was requested on the upscale worker, no per-page
\* subprocess is started, no output document is written, and the step that
\* ends the run emits finished(False, []).
C33_StopWritesNoOutput ==
  [][ (stop_flag /\ upc # "done") =>
        /\ ~(upc # "subprocess" /\ upc' = "subprocess")
        /\ upscaled_dir' = upscaled_dir
        /\ upc' = "done" =>
             finished_args' = [ok |-> FALSE, files |-> << >>] ]_vars


\* ---------------------------------------------------------------------------
\* C34: at most one upscale worker is running at any time, whatever fetch
\* runs the window starts in the meantime.
C34_OneUpscaleWorkerAtATime ==
  upscale_workers <= 1


\* ---------------------------------------------------------------------------
\* C35: the percent of every progress signal, of the fetch worker and of the
\* upscale worker, is in 0..100, and within a fetch run the percent never
\* goes down from one signal to the next.
C35_PercentInRangeAndRising ==
  /\ [](last_event.percent \in 0..100)
  /\ [][ upc = "absent" => last_event'.percent >= last_event.percent ]_vars

\* The progress of the second of two chapters was emitted, after 10, 20 or
\* 30, 50 and 70.
C35_Witness ==
  /\ pc = "fetching" /\ i = 2 /\ Len(chapters) = 2
  /\ last_event.percent = 90


\* ---------------------------------------------------------------------------
\* C36: in bundle mode the run's list of created files stays empty and the
\* finished signal carries an empty list, also when the archive was
\* assembled.
C36_BundleModeReportsNoFiles ==
  (pc # "absent" /\ output_format = "cbz") =>
    /\ created_files = << >>
    /\ finished_args.files = << >>

\* A bundle-mode run that was not cancelled has ended with finished(True, [])
\* and its archive, with pages in it, is on disk.
C36_Witness ==
  /\ pc = "done" /\ output_format = "cbz" /\ ~is_cancelled
  /\ finished_count = 1 /\ finished_args = [ok |-> TRUE, files |-> << >>]
  /\ CbzName(manga_title_safe) \in DOMAIN outputs
  /\ outputs[CbzName(manga_title_safe)] # << >>


\* The chapters the pages written so far come from.
AssembledChapters ==
  UNION { { IF output_format = "cbz" THEN outputs[f][k].data.ch
            ELSE outputs[f][k].ch : k \in 1..Len(outputs[f]) } :
          f \in DOMAIN outputs }

StaleBundles ==
  ZipName(1, << "x" >>) :> [ch |-> 0, zip |-> TRUE, names |-> PagesOf(1)]

\* The working directory when an earlier run ended without its cleanup, as a
\* run that failed in assembly does: both directories exist and downloads/
\* holds that run's bundle.
StaleStaging ==
  /\ dirs = {"downloads", "combined_temp"}
  /\ downloads = StaleBundles
  /\ temp = EmptyFn

InitStale == StartedWorker(StaleStaging)

\* One run of the fetch worker and the window's handler of its end.
NextStale ==
  \/ run
  \/ cancel
  \/ _get_webdriver_with_autodownload
  \/ driver_get
  \/ restore_session
  \/ wait_login
  \/ _auto_download_if_manga_page
  \/ _download_all_manga
  \/ _download_all_manga_found
  \/ _load_cookies
  \/ _get_manga_data
  \/ _download_chapters
  \/ _download_chapter
  \/ request_delay
  \/ download_manga
  \/ _create_cbz_archive
  \/ _create_cbz_archive_page
  \/ _create_cbz_archive_end
  \/ download_manga_cbz_done
  \/ _create_auto_split_pdf
  \/ _create_auto_split_pdf_page
  \/ _create_auto_split_pdf_single
  \/ _create_auto_split_pdf_part
  \/ download_manga_cleanup
  \/ download_finished

SpecStale == InitStale /\ [][NextStale]_vars

\* ---------------------------------------------------------------------------
\* C38: no page of a bundle that an earlier run left in downloads/ is written
\* into an artifact of the current run, also when cleanup() could not remove
\* the stale directory: every assembled page is of a chapter this run saved.
C38_StaleBundlesAreNotAssembled ==
  \A c \in AssembledChapters : c \in 1..Len(fetch_log) /\ fetch_log[c].saved

====
